---------------------------- MODULE Spec2Model ----------------------------
(***************************************************************************)
(* Model of install.py, the installer of the Komodo Periphery Home         *)
(* Assistant add-on: main, the OS-specific dependency step, the            *)
(* development pipeline (find_ha_config, setup_devcontainer,               *)
(* setup_local_dev, build_addon, create_documentation, initialize_git)     *)
(* and the production pipeline (setup_production, create_documentation,    *)
(* initialize_git).  One behaviour is a sequence of runs of the script on  *)
(* one host: the host's filesystem persists from run to run.               *)
(***************************************************************************)
EXTENDS Integers, Sequences, FiniteSets, TLC

VARIABLES
    pc,             \* position of the current run ("idle" before the first run)
    exit_code,      \* process exit status of the current run, NoExit while running
    err,            \* which handler of main's try block ended the run, or
                    \* "uncaught" when none did
    steps,          \* steps executed in this run, in order, each with its result
    cmds,           \* external commands run in this run, in order, with outcomes
    msgs,           \* messages printed in this run
    probes,         \* command_exists calls of this run, in order, with results
    inputs,         \* answers read by input() in this run, in order
    flags,          \* --dev / --production as given on the command line
    args,           \* args after "default to dev mode"
    colors,         \* Colors class state: TRUE when escape codes are emitted
    isatty,         \* sys.stdout.isatty() of the current run
    ha_config_dir,  \* Installer.ha_config_dir (None when unset)
    ha_addons_dir,  \* Installer.ha_addons_dir (None when unset)
    os_type,        \* platform.system().lower()
    path,           \* executables found on the search path (shutil.which)
    machine,        \* platform.machine()
    host,           \* what find_ha_config read: override, marker files, answer
    addons,         \* per config root: the entries of its addons directory
    project,        \* the project tree's own files (relative paths)
    manifest_arch,  \* the arch list of the add-on's config.yaml
    prev_exit,      \* exit status of the run before this one (NoExit if none)
    moved_in,       \* workspace entries a backup moved into the project root
    manifests,      \* generated files of the project: their content state
    git,            \* .git of the project: present, number of commits
    now,            \* wall clock in seconds
    runs            \* runs started so far

runVars == <<pc, exit_code, err, steps, cmds, msgs, probes, inputs, flags,
             args, colors, isatty, ha_config_dir, ha_addons_dir>>
hostVars == <<os_type, path, machine, host, addons, project, manifest_arch,
              prev_exit, moved_in, manifests, git, now, runs>>
vars == <<pc, exit_code, err, steps, cmds, msgs, probes, inputs, flags, args,
          colors, isatty, ha_config_dir, ha_addons_dir, os_type, path,
          machine, host, addons, project, manifest_arch, prev_exit, moved_in,
          manifests, git, now, runs>>

(***************************************************************************)
(* Bounds of the model.                                                    *)
(***************************************************************************)
MaxRuns == 3
MaxClock == 3

(***************************************************************************)
(* Values.                                                                 *)
(***************************************************************************)
ADDON_SLUG == "komodo_periphery"
NoExit == -1
\* The run was ended by a KeyboardInterrupt that no clause of main caught:
\* main has called no sys.exit, the interpreter prints the traceback and ends
\* the process by SIGINT.
UncaughtExit == -2
None == <<>>
OSFamilies == {"linux", "darwin", "windows", "freebsd"}
RequiredTools == <<"git", "docker">>
Managers == <<"apt-get", "yum", "dnf", "pacman", "zypper">>

\* Outcomes of subprocess.run(command, check=True): exit status 0, a non-zero
\* exit status (CalledProcessError), the executable missing (FileNotFoundError,
\* an OSError), or KeyboardInterrupt while waiting.
Outcomes == {"ok", "fail", "oserror", "interrupt"}

SeqToSet(s) == {s[i] : i \in 1..Len(s)}

\* The list of required tools with no test of the search path.
AllToolsMissing == RequiredTools

\* shutil.which(command) is not None
command_exists(c) == c \in path

\* [tool for tool in required_tools if not self.command_exists(tool)]
MissingTools == SelectSeq(RequiredTools, LAMBDA t : ~command_exists(t))

\* The last manager of the list found on the path instead of the first.
detect_last_manager ==
    LET found == {i \in 1..Len(Managers) : command_exists(Managers[i])}
    IN  IF found = {} THEN "None"
        ELSE Managers[CHOOSE i \in found : \A j \in found : j <= i]

\* A manager assumed without looking at the search path.
detect_assumed_manager == "apt-get"

\* detect_package_manager: the first manager of the list found on the path.
detect_package_manager ==
    LET found == {i \in 1..Len(Managers) : command_exists(Managers[i])}
    IN  IF found = {} THEN "None"
        ELSE Managers[CHOOSE i \in found : \A j \in found : i <= j]

Msg(lvl, key) == [lvl |-> lvl, key |-> key, ansi |-> colors]

\* run_command over a list of commands, each must-succeed: the commands up to
\* and including the first whose outcome is not "ok" are the ones executed.
FirstBad(outs, n) ==
    LET bad == {i \in 1..n : outs[i] # "ok"}
    IN  IF bad = {} THEN 0 ELSE CHOOSE i \in bad : \A j \in bad : i <= j

\* run_command running a command that did not succeed a second time.
ExecutedWithRetry(list, outs) ==
    LET n == Len(list)
        b == FirstBad(outs, n)
        k == IF b = 0 THEN n ELSE b
        once == [i \in 1..k |-> [argv |-> list[i], out |-> outs[i]]]
    IN  IF b = 0 THEN once ELSE Append(once, once[k])

Executed(list, outs) ==
    LET n == Len(list)
        b == FirstBad(outs, n)
        k == IF b = 0 THEN n ELSE b
    IN  [i \in 1..k |-> [argv |-> list[i], out |-> outs[i]]]

ResultOf(list, outs) ==
    LET b == FirstBad(outs, Len(list))
    IN  IF b = 0 THEN "ok" ELSE outs[b]

\* ErrOf with KeyboardInterrupt caught by the clause for failed commands.
ErrOfInterruptAsCommand(outcome) ==
    CASE outcome \in {"fail", "interrupt"} -> "command"
      [] outcome = "oserror" -> "filesystem"
      [] OTHER -> "unexpected"

\* main's except clauses, by what was raised.
ErrOf(outcome) ==
    CASE outcome = "fail" -> "command"
      [] outcome = "oserror" -> "filesystem"
      [] outcome = "interrupt" -> "interrupt"
      [] OTHER -> "unexpected"

(***************************************************************************)
(* The pipelines of main: which step follows which.                        *)
(***************************************************************************)
\* The production pipeline with an image build after the build manifest.
ProdStepsWithBuild ==
    <<"setup_production", "build_addon", "create_documentation",
      "initialize_git">>

\* The development pipeline with the image built before the workspace is
\* linked.
DevStepsBuildFirst ==
    <<"find_ha_config", "setup_devcontainer", "build_addon",
      "setup_local_dev", "create_documentation", "initialize_git">>

\* The development pipeline with the devcontainer written before the config
\* root is located.
DevStepsDevcontainerFirst ==
    <<"setup_devcontainer", "find_ha_config", "setup_local_dev",
      "build_addon", "create_documentation", "initialize_git">>

DevSteps == <<"find_ha_config", "setup_devcontainer", "setup_local_dev",
              "build_addon", "create_documentation", "initialize_git">>
ProdSteps == <<"setup_production", "create_documentation", "initialize_git">>

\* Pipeline with the second test an "if" of its own instead of an "elif".
PipelineBoth(a) == (IF a.dev THEN DevSteps ELSE <<>>)
                     \o (IF a.production THEN ProdSteps ELSE <<>>)

\* Pipeline with --production tested before --dev.
PipelineProductionFirst(a) ==
    IF a.production THEN ProdSteps
    ELSE IF a.dev THEN DevSteps ELSE <<>>

\* if args.dev: setup_development_environment
\* elif args.production: setup_production_environment
Pipeline(a) == IF a.dev THEN DevSteps
               ELSE IF a.production THEN ProdSteps ELSE <<>>

NextPc(name) ==
    LET p == Pipeline(args)
    IN  IF name = "install_dependencies"
        THEN (IF p = <<>> THEN "done" ELSE p[1])
        ELSE LET i == CHOOSE j \in 1..Len(p) : p[j] = name
             IN  IF i = Len(p) THEN "done" ELSE p[i + 1]

\* What main's except clause prints for what was raised; sys.exit(1) inside a
\* step raises SystemExit, which no clause catches.
HandlerMsgs(kind) ==
    CASE kind = "interrupt" -> <<Msg("warning", "cancelled_by_user")>>
      [] kind = "command" -> <<Msg("error", "failed_command_error")>>
      [] kind = "filesystem" -> <<Msg("error", "failed_file_system_error")>>
      [] kind = "unexpected" -> <<Msg("error", "failed_unexpected_error")>>
      [] OTHER -> <<>>

\* run_command's except clause: two error lines for a CalledProcessError.
CommandMsgs(result) ==
    IF result = "fail"
    THEN <<Msg("error", "command_failed"), Msg("error", "command_stderr")>>
    ELSE <<>>

\* The status line setup_development_environment or
\* setup_production_environment prints before its first step.
PipelineIntro(name) ==
    IF name = "install_dependencies" /\ Pipeline(args) # <<>>
    THEN <<Msg("info", IF args.dev THEN "setting_up_development"
                       ELSE "setting_up_production")>>
    ELSE <<>>

\* What is printed after the last step: the pipeline's closing lines, then
\* main's success line.
PipelineOutro(name) ==
    IF NextPc(name) # "done" THEN <<>>
    ELSE (IF name = "install_dependencies" THEN <<>>
          ELSE <<Msg("success", IF args.dev THEN "development_setup_complete"
                                ELSE "production_setup_complete"),
                 Msg("info", "next_steps")>>)
           \o <<Msg("success", "installation_completed")>>

\* A step returns: the next step starts, or the run ends with exit status 0.
Return(name, printed) ==
    /\ steps' = Append(steps, [name |-> name, ok |-> TRUE])
    /\ msgs' = msgs \o printed \o PipelineIntro(name) \o PipelineOutro(name)
    /\ pc' = NextPc(name)
    /\ exit_code' = IF NextPc(name) = "done" THEN 0 ELSE exit_code
    /\ err' = err

\* Raise with the failure swallowed: the run goes on with the next step.
RaiseContinue(name, kind, printed) ==
    /\ steps' = Append(steps, [name |-> name, ok |-> FALSE])
    /\ msgs' = msgs \o printed \o HandlerMsgs(kind)
    /\ pc' = NextPc(name)
    /\ exit_code' = IF NextPc(name) = "done" THEN 0 ELSE exit_code
    /\ err' = kind

\* Raise with the handler's sys.exit(1) left out: the run ends with status 0.
RaiseNoExit(name, kind, printed) ==
    /\ steps' = Append(steps, [name |-> name, ok |-> FALSE])
    /\ msgs' = msgs \o printed \o HandlerMsgs(kind)
    /\ pc' = "done"
    /\ exit_code' = 0
    /\ err' = kind

\* A step raises (sys.exit(1), or an exception main catches): exit status 1.
Raise(name, kind, printed) ==
    /\ steps' = Append(steps, [name |-> name, ok |-> FALSE])
    /\ msgs' = msgs \o printed \o HandlerMsgs(kind)
    /\ pc' = "failed"
    /\ exit_code' = 1
    /\ err' = kind

(***************************************************************************)
(* main, up to the try block: parse the flags, default to development,     *)
(* construct the installer (which may disable the colors), print the       *)
(* banner.  These lines are not guarded: a KeyboardInterrupt that arrives   *)
(* on one of them is caught by no clause and ends the process there.       *)
(***************************************************************************)
\* Installer.__init__ with the call of Colors.disable() left out.
ColorsNeverDisabled(before, tty) == before

\* Colors after Installer.__init__: the constructor blanks the escape codes
\* on Windows when standard output is not a terminal and never sets them, so
\* codes that were blank before it stay blank.
ColorsAfterInit(before, tty) == before /\ ~(os_type = "windows" /\ ~tty)

\* print_header: three calls of print.  The first line opens with the code
\* for blue and the last closes with the reset code; the title between them
\* holds no code.
print_header(c) ==
    <<[lvl |-> "header", key |-> "banner_rule_open", ansi |-> c],
      [lvl |-> "header", key |-> "banner_title", ansi |-> FALSE],
      [lvl |-> "header", key |-> "banner_rule_close", ansi |-> c]>>

Begin(d, p, tty) ==
    LET parsed == [dev |-> d, production |-> p]
        defaulted == [dev |-> IF ~d /\ ~p THEN TRUE ELSE d, production |-> p]
        after == ColorsAfterInit(colors, tty)
        header == print_header(after)
    IN
    /\ runs' = runs + 1
    /\ prev_exit' = exit_code
    /\ flags' = parsed
    /\ isatty' = tty
    /\ steps' = <<>>
    /\ cmds' = <<>>
    /\ probes' = <<>>
    /\ inputs' = <<>>
    /\ ha_config_dir' = None
    /\ ha_addons_dir' = None
    /\ \/ \* the try block is entered
          /\ args' = defaulted
          /\ colors' = after
          /\ msgs' = header
          /\ pc' = "install_dependencies"
          /\ exit_code' = NoExit
          /\ err' = "none"
       \/ \* KeyboardInterrupt before it: after parse_args, after the
          \* default, after Installer(), or after one, two or all three of
          \* the lines of the banner
          /\ \E k \in 0..(2 + Len(header)) :
                /\ args' = IF k = 0 THEN parsed ELSE defaulted
                /\ colors' = IF k < 2 THEN colors ELSE after
                /\ msgs' = IF k < 2 THEN <<>> ELSE SubSeq(header, 1, k - 2)
          /\ pc' = "failed"
          /\ exit_code' = UncaughtExit
          /\ err' = "uncaught"
    /\ UNCHANGED <<os_type, path, machine, host, addons, project,
                   manifest_arch, moved_in, manifests, git, now>>

\* The script is started on the host, with any flags, on any terminal.
StartRun ==
    /\ pc = "idle"
    /\ \E d \in BOOLEAN, p \in BOOLEAN, tty \in BOOLEAN : Begin(d, p, tty)

\* After a run has ended the same command line is run again on the same
\* terminal.
Rerun ==
    /\ pc \in {"done", "failed"}
    /\ runs < MaxRuns
    /\ Begin(flags.dev, flags.production, isatty)

\* The clock advances between two runs.
Tick ==
    /\ pc \in {"done", "failed"}
    /\ runs < MaxRuns
    /\ now < MaxClock
    /\ now' = now + 1
    /\ UNCHANGED <<runVars, os_type, path, machine, host, addons, project,
                   manifest_arch, prev_exit, moved_in, manifests, git, runs>>

\* Colors.disable() and Colors.enable(): the class methods blank and
\* restore the escape codes of the process.  main calls neither; the
\* constructor calls disable, and enable is there for the tests.  A caller
\* that has blanked the codes before main leaves the whole run without them.
Colors_disable ==
    /\ colors' = FALSE
    /\ UNCHANGED <<pc, exit_code, err, steps, cmds, msgs, probes, inputs,
                   flags, args, isatty, ha_config_dir, ha_addons_dir,
                   hostVars>>

Colors_enable ==
    /\ colors' = TRUE
    /\ UNCHANGED <<pc, exit_code, err, steps, cmds, msgs, probes, inputs,
                   flags, args, isatty, ha_config_dir, ha_addons_dir,
                   hostVars>>

(***************************************************************************)
(* The add-on manifest (config.yaml) and the build manifest (build.yaml).  *)
(***************************************************************************)
\* The architectures an add-on manifest may declare.
valid_archs == {"aarch64", "amd64", "armhf", "armv7", "i386"}

\* An image reference, as its segments between the slashes.
BaseImage == <<"ghcr.io", "home-assistant", "alpine-base:3.21">>

\* build_from with the entry of one architecture left out.
build_from_without_i386 ==
    [a \in {"aarch64", "amd64", "armhf", "armv7"} |-> BaseImage]

\* The build_from map of the build.yaml that setup_production writes.
build_from ==
    [a \in {"aarch64", "amd64", "armhf", "armv7", "i386"} |-> BaseImage]

\* The build_from map of a build.yaml in a given content state; nothing is
\* known of a file the installer did not write completely.
BuildFromOf(state) == IF state = "fresh" THEN build_from ELSE <<>>

\* What the repository's test requires of build_from for an arch list.
test_build_from_configuration(bf, archs) ==
    /\ DOMAIN bf # {}
    /\ \A a \in archs :
          /\ a \in DOMAIN bf
          /\ Len(bf[a]) > 0
          /\ \E i \in 1..Len(bf[a]) : bf[a][i] = "home-assistant"

(***************************************************************************)
(* install_dependencies and its three OS-specific handlers.                *)
(***************************************************************************)
\* Executables the script looks up or runs.
Executables == SeqToSet(RequiredTools) \cup SeqToSet(Managers)
                   \cup {"brew", "sudo"}

\* Answers a user may type at a prompt of input(), and str.lower() of each.
Answers == {"y", "Y", "n", "N", "", "yes"}

\* The answer compared as typed, without str.lower().
LowerLeftOut(s) == s

Lower(s) == CASE s = "Y" -> "y" [] s = "N" -> "n" [] OTHER -> s

Probe(c, found) == [cmd |-> c, found |-> found]

\* The command_exists calls of the list comprehension over required_tools.
ToolProbes == [i \in 1..Len(RequiredTools) |->
                  Probe(RequiredTools[i], command_exists(RequiredTools[i]))]

\* The command_exists calls of detect_package_manager: it returns at the
\* first manager found.
ManagerProbes ==
    LET found == {i \in 1..Len(Managers) : command_exists(Managers[i])}
        k == IF found = {} THEN Len(Managers)
             ELSE CHOOSE i \in found : \A j \in found : i <= j
    IN  [i \in 1..k |-> Probe(Managers[i], command_exists(Managers[i]))]

\* The package-manager commands with the install run before the update.
LinuxInstallBeforeUpdate(pm, missing) ==
    CASE pm = "apt-get" ->
            << <<"sudo", "apt-get", "install", "-y">> \o missing
                    \o <<"docker-compose", "jq">>,
               <<"sudo", "apt-get", "update">> >>
      [] pm \in {"yum", "dnf"} ->
            << <<"sudo", pm, "install", "-y">> \o missing
                    \o <<"docker-compose", "jq">>,
               <<"sudo", pm, "update", "-y">> >>
      [] pm = "pacman" ->
            << <<"sudo", "pacman", "-Syu", "--noconfirm">> \o missing
                    \o <<"docker-compose", "jq">> >>
      [] OTHER -> <<>>

\* The must-succeed package-manager commands of _install_linux_dependencies.
LinuxInstallCommands(pm, missing) ==
    CASE pm = "apt-get" ->
            << <<"sudo", "apt-get", "update">>,
               <<"sudo", "apt-get", "install", "-y">> \o missing
                    \o <<"docker-compose", "jq">> >>
      [] pm \in {"yum", "dnf"} ->
            << <<"sudo", pm, "update", "-y">>,
               <<"sudo", pm, "install", "-y">> \o missing
                    \o <<"docker-compose", "jq">> >>
      [] pm = "pacman" ->
            << <<"sudo", "pacman", "-Syu", "--noconfirm">> \o missing
                    \o <<"docker-compose", "jq">> >>
      [] OTHER -> <<>>

\* The commands of the try block that configures the Docker service.
DockerServiceCommands ==
    << <<"sudo", "systemctl", "enable", "docker">>,
       <<"sudo", "systemctl", "start", "docker">>,
       <<"sudo", "usermod", "-aG", "docker", "$USER">> >>

\* Outcomes of n commands run one after the other through an executable:
\* when it is not on the search path subprocess.run raises FileNotFoundError.
OutcomesVia(exe, n) ==
    IF command_exists(exe) THEN [1..n -> Outcomes \ {"oserror"}]
    ELSE {[i \in 1..n |-> "oserror"]}

\* What an install that exited 0 leaves on the search path: the package
\* manager is external, each missing tool may or may not be found afterwards.
InstalledBy(missing) == SUBSET SeqToSet(missing)

InstallLinuxDependencies(missing) ==
    IF missing = <<>>
    THEN /\ Return("install_dependencies",
                   <<Msg("info", "installing_dependencies"),
                     Msg("info", "all_tools_installed")>>)
         /\ probes' = probes \o ToolProbes
         /\ UNCHANGED <<cmds, inputs, path>>
    ELSE LET pm == detect_package_manager
             seen == probes \o ToolProbes \o ManagerProbes
             install == LinuxInstallCommands(pm, missing)
             service == IF "docker" \in SeqToSet(missing)
                        THEN DockerServiceCommands ELSE <<>>
             n == Len(install)
             m == Len(service)
             head == <<Msg("info", "installing_dependencies"),
                       Msg("info", "installing_via_manager")>>
         IN  IF pm = "None"
             THEN /\ Raise("install_dependencies", "sysexit",
                           <<Msg("info", "installing_dependencies"),
                             Msg("error", "no_package_manager"),
                             Msg("error", "install_manually")>>)
                  /\ probes' = seen
                  /\ UNCHANGED <<cmds, inputs, path>>
             ELSE \E o \in OutcomesVia("sudo", n + m) :
                  LET io == [i \in 1..n |-> o[i]]
                      so == [i \in 1..m |-> o[n + i]]
                      ir == ResultOf(install, io)
                      sr == ResultOf(service, so)
                  IN  /\ probes' = seen
                      /\ inputs' = inputs
                      /\ IF ir # "ok"
                         THEN /\ cmds' = cmds \o Executed(install, io)
                              /\ path' = path
                              /\ Raise("install_dependencies", ErrOf(ir),
                                       head \o CommandMsgs(ir))
                         ELSE /\ cmds' = cmds \o Executed(install, io)
                                           \o Executed(service, so)
                              /\ IF n = 0 THEN path' = path
                                 ELSE \E inst \in InstalledBy(missing) :
                                         path' = path \cup inst
                              /\ CASE m = 0 ->
                                        Return("install_dependencies", head)
                                   [] m # 0 /\ sr = "ok" ->
                                        Return("install_dependencies",
                                            head \o <<Msg("warning",
                                                "docker_group_relogin")>>)
                                   [] m # 0 /\ sr = "fail" ->
                                        Return("install_dependencies",
                                            head \o CommandMsgs(sr)
                                            \o <<Msg("warning",
                                                "docker_service_manual")>>)
                                   [] OTHER ->
                                        Raise("install_dependencies",
                                              ErrOf(sr), head)

\* The brew command without the auxiliary package.
BrewInstallWithoutJq(missing) == <<"brew", "install">> \o missing

\* ["brew", "install"] + missing_tools + ["jq"]
BrewInstallCommand(missing) == <<"brew", "install">> \o missing \o <<"jq">>

InstallMacosDependencies(missing) ==
    LET brew == command_exists("brew")
        seen == probes \o ToolProbes \o <<Probe("brew", brew)>>
        install == IF missing = <<>> THEN <<>>
                   ELSE <<BrewInstallCommand(missing)>>
        head == <<Msg("info", "installing_dependencies")>>
                \o IF missing = <<>> THEN <<>>
                   ELSE <<Msg("info", "installing_via_homebrew")>>
    IN  IF ~brew
        THEN /\ Raise("install_dependencies", "sysexit",
                      <<Msg("info", "installing_dependencies"),
                        Msg("error", "homebrew_not_found"),
                        Msg("error", "homebrew_url")>>)
             /\ probes' = seen
             /\ UNCHANGED <<cmds, inputs, path>>
        ELSE \E o \in OutcomesVia("brew", Len(install)) :
             LET r == ResultOf(install, o)
             IN  /\ cmds' = cmds \o Executed(install, o)
                 /\ inputs' = inputs
                 /\ IF r # "ok"
                    THEN /\ path' = path
                         /\ probes' = seen
                         /\ Raise("install_dependencies", ErrOf(r),
                                  head \o CommandMsgs(r))
                    ELSE /\ IF install = <<>> THEN path' = path
                            ELSE \E inst \in InstalledBy(missing) :
                                    path' = path \cup inst
                         /\ probes' = Append(seen,
                                         Probe("docker", "docker" \in path'))
                         /\ Return("install_dependencies",
                                head \o IF "docker" \in path' THEN <<>>
                                   ELSE <<Msg("warning", "docker_desktop_missing"),
                                          Msg("warning", "docker_desktop_url")>>)

\* The answer at the prompt not looked at: the step returns.
DeclinedIgnored(printed) == Return("install_dependencies", printed)

\* if choice.lower() != "y": sys.exit(1)
Declined(printed) == Raise("install_dependencies", "sysexit", printed)

\* The warnings _check_windows_dependencies prints before it asks: the
\* heading, one line per missing tool, and the three lines on what to
\* install.
WindowsWarnings(missing) ==
    <<Msg("warning", "missing_tools_on_windows")>>
      \o [i \in 1..Len(missing) |->
            Msg("warning", IF missing[i] = "git" THEN "missing_tool_git"
                           ELSE "missing_tool_docker")]
      \o <<Msg("warning", "please_install"),
            Msg("warning", "git_for_windows_url"),
            Msg("warning", "docker_desktop_windows_url")>>

CheckWindowsDependencies(missing) ==
    IF missing = <<>>
    THEN /\ Return("install_dependencies",
                   <<Msg("info", "installing_dependencies")>>)
         /\ probes' = probes \o ToolProbes
         /\ UNCHANGED <<cmds, inputs, path>>
    ELSE LET head == <<Msg("info", "installing_dependencies")>>
                         \o WindowsWarnings(missing)
         IN  /\ probes' = probes \o ToolProbes
             /\ UNCHANGED <<cmds, path>>
             /\ \/ \E choice \in Answers :
                      /\ inputs' = Append(inputs, choice)
                      /\ IF Lower(choice) # "y"
                         THEN Declined(head)
                         ELSE Return("install_dependencies", head)
                \/ \E raised \in {"interrupt", "unexpected"} :
                      \* Ctrl-C at the prompt, or end of input (EOFError)
                      /\ inputs' = inputs
                      /\ Raise("install_dependencies", raised, head)

\* The else branch with the check of the Windows branch in its place.
UnsupportedAsWindows == CheckWindowsDependencies(MissingTools)

\* else: print_error("Unsupported operating system"); sys.exit(1)
UnsupportedOS ==
    /\ Raise("install_dependencies", "sysexit",
             <<Msg("info", "installing_dependencies"),
               Msg("error", "unsupported_os")>>)
    /\ probes' = probes \o ToolProbes
    /\ UNCHANGED <<cmds, inputs, path>>

install_dependencies ==
    /\ pc = "install_dependencies"
    /\ CASE os_type = "linux" -> InstallLinuxDependencies(MissingTools)
         [] os_type = "darwin" -> InstallMacosDependencies(MissingTools)
         [] os_type = "windows" -> CheckWindowsDependencies(MissingTools)
         [] OTHER -> UnsupportedOS
    /\ UNCHANGED <<flags, args, colors, isatty, ha_config_dir, ha_addons_dir,
                   os_type, machine, host, addons, project, manifest_arch,
                   prev_exit, moved_in, manifests, git, now, runs>>

(***************************************************************************)
(* find_ha_config.  A path is the sequence of its components; "~" stands   *)
(* for Path.home().                                                        *)
(***************************************************************************)
MaxMarked == 3

Home(rest) == <<"~">> \o rest

\* The ha_paths lists, before the override is inserted.
BuiltinPaths(os) ==
    IF os = "windows"
    THEN << Home(<<".homeassistant">>),
            Home(<<"homeassistant">>),
            Home(<<"Documents", "HomeAssistant">>),
            Home(<<"Development", "homeassistant">>),
            <<"C:", "homeassistant">>,
            <<"C:", "config">> >>
    ELSE << Home(<<".homeassistant">>),
            Home(<<"homeassistant">>),
            <<"/", "usr", "share", "hassio", "homeassistant">>,
            <<"/", "config">>,
            Home(<<"Documents", "HomeAssistant">>),
            Home(<<"Development", "homeassistant">>) >>

\* os.getenv("HA_CONFIG_PATH"): unset, or one of these strings; the same
\* strings are what a user may type at the path prompt.
NoEnv == "<unset>"
PathStrings == {"", ".", "/config", "/config/", "/srv/ha",
                "/home/user/homeassistant"}

\* pathlib.Path(string): "" is the current directory, a trailing separator
\* is dropped, and Path.home() is /home/user.
PathOf(s) ==
    CASE s = "" -> <<".">>
      [] s = "." -> <<".">>
      [] s = "/config" -> <<"/", "config">>
      [] s = "/config/" -> <<"/", "config">>
      [] s = "/srv/ha" -> <<"/", "srv", "ha">>
      [] s = "/home/user/homeassistant" -> Home(<<"homeassistant">>)

\* The candidates with the override appended instead of inserted in front.
CandidatesEnvLast(os, env) ==
    BuiltinPaths(os)
        \o (IF env # NoEnv /\ env # "" THEN <<PathOf(env)>> ELSE <<>>)

\* The candidates with an override set to the empty string inserted too.
CandidatesEmptyOverride(os, env) ==
    (IF env # NoEnv THEN <<PathOf(env)>> ELSE <<>>) \o BuiltinPaths(os)

\* if env_path: ha_paths.insert(0, Path(env_path))
Candidates(os, env) ==
    (IF env # NoEnv /\ env # "" THEN <<PathOf(env)>> ELSE <<>>)
        \o BuiltinPaths(os)

\* (path / "configuration.yaml").exists()
HasMarker(h, p) == p \in h.marked

\* for path in ha_paths: the index of the first candidate with the marker
\* file, 0 when the loop ends without returning.
FirstValid(h, cand) ==
    LET ok == {i \in 1..Len(cand) : HasMarker(h, cand[i])}
    IN  IF ok = {} THEN 0 ELSE CHOOSE i \in ok : \A j \in ok : i <= j

\* path / "addons"
AddonsOf(p) == Append(p, "addons")

\* Directories of a host that may hold a configuration.yaml.
Dirs == SeqToSet(BuiltinPaths("linux")) \cup SeqToSet(BuiltinPaths("windows"))
            \cup {PathOf(s) : s \in PathStrings}

Hosts == {h \in [env : PathStrings \cup {NoEnv}, marked : SUBSET Dirs,
                 answer : PathStrings] : Cardinality(h.marked) <= MaxMarked}

NoHost == [env |-> NoEnv, marked |-> {}, answer |-> ""]

\* The two assignments with the addons directory set to the root itself.
AcceptNoAddons(p) ==
    /\ ha_config_dir' = p
    /\ ha_addons_dir' = p

\* A manual path accepted without a test.
ValidManualAny(h, p) == TRUE

\* if (user_path / "configuration.yaml").exists()
ValidManual(h, p) == HasMarker(h, p)

\* self.ha_config_dir = path; self.ha_addons_dir = path / "addons"
Accept(p) ==
    /\ ha_config_dir' = p
    /\ ha_addons_dir' = AddonsOf(p)

find_ha_config ==
    /\ pc = "find_ha_config"
    /\ LET h == host
           cand == Candidates(os_type, h.env)
           i == FirstValid(h, cand)
           head == <<Msg("info", "looking_for_config")>>
           asked == head \o <<Msg("warning", "config_not_found")>>
       IN  IF i # 0
           THEN /\ Accept(cand[i])
                /\ inputs' = inputs
                /\ Return("find_ha_config",
                          head \o <<Msg("info", "found_config")>>)
           ELSE \/ LET user_path == PathOf(h.answer)
                   IN  /\ inputs' = Append(inputs, h.answer)
                       /\ IF ValidManual(h, user_path)
                          THEN /\ Accept(user_path)
                               /\ Return("find_ha_config",
                                     asked \o <<Msg("info", "using_config")>>)
                          ELSE /\ UNCHANGED <<ha_config_dir, ha_addons_dir>>
                               /\ Raise("find_ha_config", "sysexit",
                                     asked \o <<Msg("error", "invalid_config")>>)
                \/ \E raised \in {"interrupt", "unexpected"} :
                      \* Ctrl-C at the prompt, or end of input (EOFError)
                      /\ inputs' = inputs
                      /\ UNCHANGED <<ha_config_dir, ha_addons_dir>>
                      /\ Raise("find_ha_config", raised, asked)
    /\ UNCHANGED <<cmds, probes, flags, args, colors, isatty, os_type, path,
                   machine, host, addons, project, manifest_arch, prev_exit,
                   moved_in, manifests, git, now, runs>>

(***************************************************************************)
(* File names and shutil.ignore_patterns.  A file name is the sequence of  *)
(* its characters, a file of a tree the sequence of the names on its path. *)
(***************************************************************************)
N_git == <<".", "g", "i", "t">>
N_devcontainer == <<".", "d", "e", "v", "c", "o", "n", "t", "a", "i", "n", "e", "r">>
N_development_md == <<"D", "E", "V", "E", "L", "O", "P", "M", "E", "N", "T", ".", "m", "d">>
N_devcontainer_json == <<"d", "e", "v", "c", "o", "n", "t", "a", "i", "n", "e", "r", ".", "j", "s", "o", "n">>
N_build_yaml == <<"b", "u", "i", "l", "d", ".", "y", "a", "m", "l">>
N_gitignore == <<".", "g", "i", "t", "i", "g", "n", "o", "r", "e">>
N_head == <<"H", "E", "A", "D">>
N_config_yaml == <<"c", "o", "n", "f", "i", "g", ".", "y", "a", "m", "l">>
N_install_py == <<"i", "n", "s", "t", "a", "l", "l", ".", "p", "y">>
N_install_sh == <<"i", "n", "s", "t", "a", "l", "l", ".", "s", "h">>
N_install_ps1 == <<"i", "n", "s", "t", "a", "l", "l", ".", "p", "s", "1">>
N_rootfs == <<"r", "o", "o", "t", "f", "s">>
N_run == <<"r", "u", "n">>
N_setup_upper == <<"S", "E", "T", "U", "P", ".", "P", "Y">>
N_hooks_sh == <<"h", "o", "o", "k", "s", ".", "s", "h">>
N_tests == <<"t", "e", "s", "t", "s">>
N_conftest_py == <<"c", "o", "n", "f", "t", "e", "s", "t", ".", "p", "y">>
N_slug == <<"k", "o", "m", "o", "d", "o", "_", "p", "e", "r", "i", "p", "h", "e", "r", "y">>

\* shutil.ignore_patterns(".git", ".devcontainer", "*.py", "*.sh", "*.ps1",
\* "DEVELOPMENT.md")
IgnorePatterns == {<<".", "g", "i", "t">>,
                   <<".", "d", "e", "v", "c", "o", "n", "t", "a", "i", "n", "e", "r">>,
                   <<"*", ".", "p", "y">>,
                   <<"*", ".", "s", "h">>,
                   <<"*", ".", "p", "s", "1">>,
                   <<"D", "E", "V", "E", "L", "O", "P", "M", "E", "N", "T", ".", "m", "d">>}

\* str.lower() of one character.
LowerChar(c) ==
    CASE c = "A" -> "a"
      [] c = "D" -> "d"
      [] c = "E" -> "e"
      [] c = "H" -> "h"
      [] c = "L" -> "l"
      [] c = "M" -> "m"
      [] c = "N" -> "n"
      [] c = "O" -> "o"
      [] c = "P" -> "p"
      [] c = "S" -> "s"
      [] c = "T" -> "t"
      [] c = "U" -> "u"
      [] c = "V" -> "v"
      [] c = "Y" -> "y"
      [] OTHER -> c

\* fnmatch of a name against a pattern whose only special character is "*".
RECURSIVE Glob(_, _)
Glob(name, pat) ==
    IF pat = <<>> THEN name = <<>>
    ELSE IF Head(pat) = "*"
         THEN Glob(name, Tail(pat)) \/ (name # <<>> /\ Glob(Tail(name), pat))
         ELSE name # <<>> /\ Head(name) = Head(pat)
                /\ Glob(Tail(name), Tail(pat))

\* os.path.normcase: lower case on Windows, the identity elsewhere.
NormCase(os, s) ==
    IF os = "windows" THEN [i \in 1..Len(s) |-> LowerChar(s[i])] ELSE s

\* A name is in the set ignore_patterns returns for a directory listing.
Ignored(os, name) ==
    \E pat \in IgnorePatterns : Glob(NormCase(os, name), NormCase(os, pat))

\* A copy whose ignore set is applied to the top-level listing only.
copytreeTopLevel(os, tree) == {f \in tree : ~Ignored(os, f[1])}

\* shutil.copytree(src, dst, ignore=...) on the files of a tree: the entries
\* of the directory that are not ignored are copied, a directory by a
\* recursive call on its own entries.
RECURSIVE copytree(_, _)
copytree(os, tree) ==
    LET names == {f[1] : f \in tree}
        kept == {n \in names : ~Ignored(os, n)}
        below(n) == {Tail(f) : f \in {g \in tree : g[1] = n /\ Len(g) > 1}}
    IN  {<<n>> : n \in {k \in kept : <<k>> \in tree}}
          \cup UNION {{<<n>> \o f : f \in copytree(os, below(n))} : n \in kept}

\* What an interrupted copytree may have copied of the files it would copy.
\* The entries of a directory are copied one after the other, in the order
\* in which os.scandir lists them (any order), a subdirectory completely
\* before the entry after it: of the subdirectories of a directory at most
\* one is copied in part, and that one in the same way.
RECURSIVE IsPartialCopy(_, _)
IsPartialCopy(part, all) ==
    LET below(tree, n) ==
            {Tail(f) : f \in {g \in tree : Len(g) > 1 /\ g[1] = n}}
        dirs == {f[1] : f \in {g \in all : Len(g) > 1}}
        begun == {n \in dirs : /\ below(part, n) # {}
                               /\ below(part, n) # below(all, n)}
    IN  /\ part \subseteq all
        /\ Cardinality(begun) <= 1
        /\ \A n \in begun : IsPartialCopy(below(part, n), below(all, n))

PartialCopies(all) == {part \in SUBSET all : IsPartialCopy(part, all)}

(***************************************************************************)
(* The project directory: its own files, the generated files, .git, and    *)
(* whatever a backup moved into it.                                        *)
(***************************************************************************)
Manifests == {"devcontainer.json", "build.yaml", "DEVELOPMENT.md", ".gitignore"}

ManifestPath(f) ==
    CASE f = "devcontainer.json" -> <<N_devcontainer, N_devcontainer_json>>
      [] f = "build.yaml" -> <<N_build_yaml>>
      [] f = "DEVELOPMENT.md" -> <<N_development_md>>
      [] f = ".gitignore" -> <<N_gitignore>>

ProjectTree ==
    project
      \cup {ManifestPath(f) : f \in {g \in Manifests : manifests[g] # "absent"}}
      \cup (IF git.dir THEN {<<N_git, N_head>>} ELSE {})
      \cup UNION {{<<N_slug>> \o f : f \in e.files} : e \in moved_in}

\* Files a project may hold besides the generated ones.
FileUniverse ==
    {<<N_config_yaml>>, <<N_install_py>>, <<N_install_sh>>, <<N_install_ps1>>,
     <<N_setup_upper>>, <<N_rootfs, N_run>>, <<N_rootfs, N_hooks_sh>>,
     <<N_hooks_sh, N_run>>, <<N_tests, N_conftest_py>>, <<N_slug>>}

\* The project of the runs of the whole script.
RunProject ==
    {<<N_config_yaml>>, <<N_install_py>>, <<N_rootfs, N_run>>,
     <<N_hooks_sh, N_run>>}

\* with open(path, "w") as f: f.write(text): the file holds the generated
\* text.  Interrupted after open() and before the text is flushed, the
\* file is left truncated.
\* A write that leaves a file that exists already as it is.
WrittenIfAbsent(f) ==
    [manifests EXCEPT ![f] = IF @ = "absent" THEN "fresh" ELSE @]

\* open(f, "w") and the write completed: the file holds the fixed content.
Written(f) == [manifests EXCEPT ![f] = "fresh"]
Truncated(f) == [manifests EXCEPT ![f] = "partial"]

setup_devcontainer ==
    /\ pc = "setup_devcontainer"
    /\ \/ /\ manifests' = Written("devcontainer.json")
          /\ Return("setup_devcontainer",
                    <<Msg("info", "setting_up_devcontainer"),
                      Msg("info", "devcontainer_created")>>)
       \/ /\ manifests' = Truncated("devcontainer.json")
          /\ Raise("setup_devcontainer", "interrupt",
                   <<Msg("info", "setting_up_devcontainer")>>)
    /\ UNCHANGED <<cmds, probes, inputs, flags, args, colors, isatty,
                   ha_config_dir, ha_addons_dir, os_type, path, machine,
                   host, addons, project, manifest_arch, prev_exit, moved_in,
                   git, now, runs>>

(***************************************************************************)
(* setup_local_dev: the addons directory of the config root, the backup    *)
(* of an existing target, the link and the copy.                           *)
(***************************************************************************)
TicksPerSecond == 2

\* _get_timestamp: strftime("%Y%m%d_%H%M%S") of the clock keeps whole seconds.
get_timestamp(t) == t \div TicksPerSecond

\* An entry of an addons directory: a symbolic link to the project directory
\* or a directory holding copied files.  id is the run that created it;
\* inside are the entries later moved into it under the name of the slug.
Entry(kind, files) ==
    [kind |-> kind, id |-> runs, files |-> files, inside |-> {}]

\* An addons directory: whether it exists, its entry komodo_periphery (none
\* or one), and its entries komodo_periphery.backup.<timestamp>; made are
\* the ids of the entries setup_local_dev has created in it.
NoDir == [dir |-> FALSE, target |-> {}, backups |-> <<>>, made |-> {}]

\* dst/komodo_periphery exists, for dst a directory of copied files.
HasSlugEntry(e) == e.inside # {} \/ \E f \in e.files : f[1] = N_slug

\* ./komodo_periphery exists in the project directory.
ProjectHasSlug == moved_in # {} \/ \E f \in project : f[1] = N_slug

\* shutil.move(str(addon_target), backup_name) for the target t and the
\* backups of its directory.  When backup_name does not exist the target is
\* renamed.  When it exists it is a directory (a link to the project
\* directory is one, through the link): if it is the same file as the
\* target (two links to the project directory) the target is renamed over
\* it, which Windows refuses; otherwise the target is moved into it as
\* komodo_periphery, unless that exists already (shutil.Error).
shutil_move(os, t, backups, ts) ==
    IF ts \notin DOMAIN backups
    THEN [ok |-> TRUE, backups |-> (ts :> t) @@ backups, moved |-> {}]
    ELSE LET b == backups[ts]
         IN  IF t.kind = "link" /\ b.kind = "link"
             THEN IF os = "windows"
                  THEN [ok |-> FALSE, backups |-> backups, moved |-> {}]
                  ELSE [ok |-> TRUE, backups |-> [backups EXCEPT ![ts] = t],
                        moved |-> {}]
             ELSE IF b.kind = "copy"
             THEN IF HasSlugEntry(b)
                  THEN [ok |-> FALSE, backups |-> backups, moved |-> {}]
                  ELSE [ok |-> TRUE,
                        backups |-> [backups EXCEPT ![ts].inside = {t.id}],
                        moved |-> {}]
             ELSE IF ProjectHasSlug
                  THEN [ok |-> FALSE, backups |-> backups, moved |-> {}]
                  ELSE [ok |-> TRUE, backups |-> backups, moved |-> {t}]

\* The project tree once the entries of moved lie in it.
TreeWith(moved) ==
    ProjectTree \cup UNION {{<<N_slug>> \o f : f \in e.files} : e \in moved}

setup_local_dev ==
    /\ pc = "setup_local_dev"
    /\ LET d == addons[ha_addons_dir]
           ts == get_timestamp(now)
           exists == d.target # {}
           t == CHOOSE e \in d.target : TRUE
           mv == IF exists THEN shutil_move(os_type, t, d.backups, ts)
                 ELSE [ok |-> TRUE, backups |-> d.backups, moved |-> {}]
           head == <<Msg("info", "setting_up_local_dev")>>
                   \o IF exists THEN <<Msg("warning", "backing_up")>> ELSE <<>>
           put(e) == [addons EXCEPT ![ha_addons_dir] =
                        [dir |-> TRUE, target |-> e, backups |-> mv.backups,
                         made |-> d.made \cup {runs}]]
       IN  IF ~mv.ok
           THEN /\ addons' = [addons EXCEPT ![ha_addons_dir].dir = TRUE]
                /\ moved_in' = moved_in
                /\ Raise("setup_local_dev", "filesystem", head)
           ELSE /\ moved_in' = moved_in \cup mv.moved
                /\ \/ \* addon_target.symlink_to(Path.cwd()) succeeds
                      /\ addons' = put({Entry("link", {})})
                      /\ Return("setup_local_dev",
                                head \o <<Msg("info", "created_symlink")>>)
                   \/ \* OSError: copy instead
                      /\ addons' = put({Entry("copy",
                                copytree(os_type, TreeWith(mv.moved)))})
                      /\ Return("setup_local_dev",
                                head \o <<Msg("warning", "cannot_symlink"),
                                          Msg("info", "copied_files")>>)
                   \/ \* OSError, and the copy is interrupted on its way
                      /\ \E part \in PartialCopies(
                                  copytree(os_type, TreeWith(mv.moved))) :
                            addons' = put({Entry("copy", part)})
                      /\ Raise("setup_local_dev", "interrupt",
                               head \o <<Msg("warning", "cannot_symlink")>>)
    /\ UNCHANGED <<cmds, probes, inputs, flags, args, colors, isatty,
                   ha_config_dir, ha_addons_dir, os_type, path, machine,
                   host, project, manifest_arch, prev_exit, manifests, git,
                   now, runs>>

(***************************************************************************)
(* build_addon.                                                            *)
(***************************************************************************)
\* platform.machine() on the hosts considered, and str.lower() of it.
Machines == {"x86_64", "AMD64", "aarch64", "arm64", "armv7l", "riscv64"}
LowerMachine(m) == IF m = "AMD64" THEN "amd64" ELSE m

\* The table with the identifier itself as the default.
ArchOfOrSelf(m) ==
    CASE m = "x86_64" -> "amd64"
      [] m = "amd64" -> "amd64"
      [] m = "aarch64" -> "aarch64"
      [] m = "arm64" -> "aarch64"
      [] m = "armv7l" -> "armv7"
      [] OTHER -> m

\* arch_map.get(machine, "amd64")
ArchOf(m) ==
    CASE m = "x86_64" -> "amd64"
      [] m = "amd64" -> "amd64"
      [] m = "aarch64" -> "aarch64"
      [] m = "arm64" -> "aarch64"
      [] m = "armv7l" -> "armv7"
      [] OTHER -> "amd64"

\* f"BUILD_ARCH={arch}" and f"ghcr.io/home-assistant/{ADDON_SLUG}-{arch}:latest"
BuildArg(arch) == <<"BUILD_ARCH=", arch>>
ImageName(arch) == <<"ghcr.io/home-assistant/", ADDON_SLUG, "-", arch, ":latest">>

BuildCommand(arch) ==
    <<"docker", "build", "--build-arg", BuildArg(arch), "-t",
      ImageName(arch), ".">>

\* The except clause with the failure of the build passed over.
DockerBuildFailedIgnored(printed) == Return("build_addon", printed)

\* except subprocess.CalledProcessError: print_error(...); sys.exit(1)
DockerBuildFailed(printed) == Raise("build_addon", "sysexit", printed)

\* The test of build_addon taking docker to be there.
DockerAssumedAvailable == TRUE

\* self.command_exists("docker") in build_addon
DockerAvailable == command_exists("docker")

build_addon ==
    /\ pc = "build_addon"
    /\ LET arch == ArchOf(LowerMachine(machine))
           head == <<Msg("info", "building_image")>>
       IN  /\ probes' = Append(probes, Probe("docker", command_exists("docker")))
           /\ IF ~DockerAvailable
              THEN /\ cmds' = cmds
                   /\ Raise("build_addon", "sysexit",
                            head \o <<Msg("error", "docker_not_available")>>)
              ELSE \E o \in Outcomes \ {"oserror"} :
                   /\ cmds' = Append(cmds,
                                [argv |-> BuildCommand(arch), out |-> o])
                   /\ CASE o = "ok" ->
                             Return("build_addon",
                                head \o <<Msg("info", "building_named_image"),
                                          Msg("info", "build_completed")>>)
                        [] o = "fail" ->
                             DockerBuildFailed(
                                head \o <<Msg("info", "building_named_image")>>
                                     \o CommandMsgs(o)
                                     \o <<Msg("error", "docker_build_failed")>>)
                        [] OTHER ->
                             Raise("build_addon", "interrupt",
                                head \o <<Msg("info", "building_named_image")>>)
    /\ UNCHANGED <<inputs, flags, args, colors, isatty, ha_config_dir,
                   ha_addons_dir, os_type, path, machine, host, addons,
                   project, manifest_arch, prev_exit, moved_in, manifests,
                   git, now, runs>>

(***************************************************************************)
(* setup_production, create_documentation, initialize_git.                 *)
(***************************************************************************)
WriteStep(name, f, before, after) ==
    /\ pc = name
    /\ \/ /\ manifests' = Written(f)
          /\ Return(name, <<Msg("info", before), Msg("info", after)>>)
       \/ /\ manifests' = Truncated(f)
          /\ Raise(name, "interrupt", <<Msg("info", before)>>)
    /\ UNCHANGED <<cmds, probes, inputs, flags, args, colors, isatty,
                   ha_config_dir, ha_addons_dir, os_type, path, machine,
                   host, addons, project, manifest_arch, prev_exit, moved_in,
                   git, now, runs>>

setup_production ==
    WriteStep("setup_production", "build.yaml",
              "setting_up_production", "production_files_created")

create_documentation ==
    WriteStep("create_documentation", "DEVELOPMENT.md",
              "creating_documentation", "documentation_created")

GitInit == <<"git", "init">>
GitAdd == <<"git", "add", ".">>
GitCommit == <<"git", "commit", "-m",
               "Initial commit: Komodo Periphery Home Assistant Add-on">>

Ran(argv, o) == [argv |-> argv, out |-> o]

\* The test of initialize_git answering that there is never a .git.
GitDirExistsNever == FALSE

\* Path(".git").exists()
GitDirExists == git.dir

initialize_git ==
    /\ pc = "initialize_git"
    /\ LET head == <<Msg("info", "initializing_git")>>
       IN
       IF GitDirExists
       THEN /\ Return("initialize_git", <<>>)
            /\ UNCHANGED <<cmds, manifests, git>>
       ELSE IF ~command_exists("git")
       THEN \* subprocess.run cannot find the executable
            /\ cmds' = Append(cmds, Ran(GitInit, "oserror"))
            /\ Raise("initialize_git", "filesystem", head)
            /\ UNCHANGED <<manifests, git>>
       ELSE \E o1 \in {"ok", "fail", "interrupt"} :
            IF o1 # "ok"
            THEN /\ cmds' = Append(cmds, Ran(GitInit, o1))
                 /\ Raise("initialize_git", ErrOf(o1),
                          head \o CommandMsgs(o1))
                 /\ UNCHANGED <<manifests, git>>
            ELSE
            \/ \* interrupted while .gitignore is written
               /\ cmds' = Append(cmds, Ran(GitInit, o1))
               /\ git' = [git EXCEPT !.dir = TRUE]
               /\ manifests' = Truncated(".gitignore")
               /\ Raise("initialize_git", "interrupt", head)
            \/ \E o2 \in {"ok", "fail", "interrupt"} :
               /\ manifests' = Written(".gitignore")
               /\ IF o2 # "ok"
                  THEN /\ cmds' = cmds \o <<Ran(GitInit, o1), Ran(GitAdd, o2)>>
                       /\ git' = [git EXCEPT !.dir = TRUE]
                       /\ Raise("initialize_git", ErrOf(o2),
                                head \o CommandMsgs(o2))
                  ELSE \E o3 \in {"ok", "fail", "interrupt"} :
                       /\ cmds' = cmds \o <<Ran(GitInit, o1), Ran(GitAdd, o2),
                                            Ran(GitCommit, o3)>>
                       /\ IF o3 # "ok"
                          THEN /\ git' = [git EXCEPT !.dir = TRUE]
                               /\ Raise("initialize_git", ErrOf(o3),
                                        head \o CommandMsgs(o3))
                          ELSE /\ git' = [dir |-> TRUE,
                                          commits |-> git.commits + 1]
                               /\ Return("initialize_git",
                                     head \o <<Msg("info", "git_initialized")>>)
    /\ UNCHANGED <<probes, inputs, flags, args, colors, isatty,
                   ha_config_dir, ha_addons_dir, os_type, path, machine,
                   host, addons, project, manifest_arch, prev_exit, moved_in,
                   now, runs>>

(***************************************************************************)
(* KeyboardInterrupt.  Ctrl-C reaches the script, once in a run, at any of *)
(* its statements: a step is written once more as the statements it        *)
(* executes in the order of the source, each with what it prints, looks    *)
(* up, runs, reads, assigns or changes on the disk, and an interrupt       *)
(* leaves what the statements before it have done.                         *)
(***************************************************************************)
Running == pc \notin {"idle", "done", "failed"}

\* What one call adds: messages, command_exists results, commands with
\* their outcomes, answers read, and the disk and the installer's fields
\* after it (none when it leaves them as they are).
Quiet == [m |-> <<>>, p |-> <<>>, c |-> <<>>, i |-> <<>>, d |-> <<>>]

Said(lvl, key) == [Quiet EXCEPT !.m = <<Msg(lvl, key)>>]
Called(argv, out) == [Quiet EXCEPT !.c = <<Ran(argv, out)>>]
Answered(ans) == [Quiet EXCEPT !.i = <<ans>>]
Left(disk) == [Quiet EXCEPT !.d = <<disk>>]

\* sys.exit(1), the raise of run_command's except clause, or the line at
\* which an exception that a call has raised leaves the function: a
\* statement of its own after what came before it.
Exits == Quiet

Disk == [path |-> path, addons |-> addons, moved_in |-> moved_in,
         manifests |-> manifests, git |-> git, cfg |-> ha_config_dir,
         adir |-> ha_addons_dir]

\* What the calls of ev have added under one heading (m, p, c or i), in
\* order.
RECURSIVE Added(_, _)
Added(ev, f) ==
    IF ev = <<>> THEN <<>> ELSE Head(ev)[f] \o Added(Tail(ev), f)

\* The disk after the calls of ev: what the last of them that changed it
\* left.
DiskOf(ev) ==
    LET changed == {j \in 1..Len(ev) : ev[j].d # <<>>}
    IN  IF changed = {} THEN Disk
        ELSE ev[CHOOSE j \in changed : \A l \in changed : l <= j].d[1]

SaidAll(list) == [j \in 1..Len(list) |-> [Quiet EXCEPT !.m = <<list[j]>>]]

\* A route through a step: its statements, and what the step raises at the
\* end of them ("none" when it returns), named as main's except clauses
\* tell it apart.
Route(ev, raises) == [ev |-> ev, raises |-> raises]

\* run_command on each command of a list: the calls, the two error lines
\* and the raise after a command that exited non-zero, and the statement by
\* which the exception of a command that could not be started leaves
\* run_command.
CalledAll(list, outs) ==
    LET ex == Executed(list, outs)
        result == ResultOf(list, outs)
    IN  [j \in 1..Len(ex) |-> Called(ex[j].argv, ex[j].out)]
          \o SaidAll(CommandMsgs(result))
          \o (IF result \in {"fail", "oserror"} THEN <<Exits>> ELSE <<>>)

\* install_dependencies up to the call of the OS-specific handler.
DependenciesStatements ==
    <<Said("info", "installing_dependencies")>>
      \o [j \in 1..Len(ToolProbes) |-> [Quiet EXCEPT !.p = <<ToolProbes[j]>>]]

LinuxStatements(missing) ==
    IF missing = <<>>
    THEN {Route(DependenciesStatements
                 \o <<Said("info", "all_tools_installed")>>, "none")}
    ELSE
    LET pm == detect_package_manager
        looked == DependenciesStatements
                    \o [j \in 1..Len(ManagerProbes) |->
                          [Quiet EXCEPT !.p = <<ManagerProbes[j]>>]]
        install == LinuxInstallCommands(pm, missing)
        service == IF "docker" \in SeqToSet(missing)
                   THEN DockerServiceCommands ELSE <<>>
        n == Len(install)
        m == Len(service)
        head == looked \o <<Said("info", "installing_via_manager")>>
        run(o, inst) ==
            LET io == [j \in 1..n |-> o[j]]
                so == [j \in 1..m |-> o[n + j]]
                ir == ResultOf(install, io)
                sr == ResultOf(service, so)
                installed == [Disk EXCEPT !.path = path \cup inst]
            IN  IF ir # "ok"
                THEN Route(head \o CalledAll(install, io), ErrOf(ir))
                ELSE
                LET done == head \o CalledAll(install, io)
                              \o (IF n = 0 THEN <<>> ELSE <<Left(installed)>>)
                IN  CASE m = 0 -> Route(done, "none")
                      [] m # 0 /\ sr = "ok" ->
                           Route(done \o CalledAll(service, so)
                                  \o <<Said("warning", "docker_group_relogin")>>,
                                "none")
                      [] m # 0 /\ sr = "fail" ->
                           Route(done \o CalledAll(service, so)
                                  \o <<Said("warning", "docker_service_manual")>>,
                                "none")
                      [] OTHER ->
                           Route(done \o CalledAll(service, so), ErrOf(sr))
    IN  IF pm = "None"
        THEN {Route(looked \o <<Said("error", "no_package_manager"),
                               Said("error", "install_manually"), Exits>>,
                   "sysexit")}
        ELSE {run(x[1], x[2]) :
                x \in OutcomesVia("sudo", n + m) \X InstalledBy(missing)}

MacosStatements(missing) ==
    LET brew == command_exists("brew")
        looked == DependenciesStatements
                    \o <<[Quiet EXCEPT !.p = <<Probe("brew", brew)>>]>>
        install == IF missing = <<>> THEN <<>>
                   ELSE <<BrewInstallCommand(missing)>>
        head == looked \o (IF missing = <<>> THEN <<>>
                           ELSE <<Said("info", "installing_via_homebrew")>>)
        run(o, inst) ==
            LET r == ResultOf(install, o)
                found == "docker" \in path \cup inst
                installed == [Disk EXCEPT !.path = path \cup inst]
            IN  IF r # "ok"
                THEN Route(head \o CalledAll(install, o), ErrOf(r))
                ELSE Route(head \o CalledAll(install, o)
                            \o (IF install = <<>> THEN <<>>
                                ELSE <<Left(installed)>>)
                            \o <<[Quiet EXCEPT
                                     !.p = <<Probe("docker", found)>>]>>
                            \o (IF found THEN <<>>
                                ELSE <<Said("warning", "docker_desktop_missing"),
                                       Said("warning", "docker_desktop_url")>>),
                          "none")
    IN  IF ~brew
        THEN {Route(looked \o <<Said("error", "homebrew_not_found"),
                               Said("error", "homebrew_url"), Exits>>,
                   "sysexit")}
        ELSE {run(x[1], x[2]) :
                x \in OutcomesVia("brew", Len(install))
                        \X (IF install = <<>> THEN {{}}
                            ELSE InstalledBy(missing))}

\* input() returns the answer, or raises EOFError at the end of input.
WindowsStatements(missing) ==
    LET asked == DependenciesStatements \o SaidAll(WindowsWarnings(missing))
    IN  IF missing = <<>>
        THEN {Route(DependenciesStatements, "none")}
        ELSE {Route(asked \o <<Answered(choice)>>
                     \o (IF Lower(choice) # "y" THEN <<Exits>> ELSE <<>>),
                   IF Lower(choice) # "y" THEN "sysexit" ELSE "none") :
                 choice \in Answers}
               \cup {Route(asked \o <<Exits>>, "unexpected")}

FindStatements ==
    LET cand == Candidates(os_type, host.env)
        j == FirstValid(host, cand)
        user_path == PathOf(host.answer)
        \* self.ha_config_dir = path, then self.ha_addons_dir = path / "addons"
        accepted(p) ==
            <<Left([Disk EXCEPT !.cfg = p]),
              Left([Disk EXCEPT !.cfg = p, !.adir = AddonsOf(p)])>>
        looking == <<Said("info", "looking_for_config"),
                     Said("warning", "config_not_found")>>
        asked == looking \o <<Answered(host.answer)>>
    IN  IF j # 0
        THEN {Route(<<Said("info", "looking_for_config")>>
                      \o accepted(cand[j])
                      \o <<Said("info", "found_config")>>, "none")}
        ELSE {IF ValidManual(host, user_path)
              THEN Route(asked \o accepted(user_path)
                          \o <<Said("info", "using_config")>>, "none")
              ELSE Route(asked \o <<Said("error", "invalid_config"), Exits>>,
                         "sysexit"),
              Route(looking \o <<Exits>>, "unexpected")}

\* A step that writes one generated file: open(path, "w") truncates it, the
\* write and the close fill it.
WriteStatements(f, before, after) ==
    {Route(<<Said("info", before),
            Left([Disk EXCEPT !.manifests = Truncated(f)]),
            Left([Disk EXCEPT !.manifests = Written(f)]),
            Said("info", after)>>, "none")}

LocalDevStatements ==
    LET d == addons[ha_addons_dir]
        ts == get_timestamp(now)
        exists == d.target # {}
        t == CHOOSE e \in d.target : TRUE
        mv == IF exists THEN shutil_move(os_type, t, d.backups, ts)
              ELSE [ok |-> TRUE, backups |-> d.backups, moved |-> {}]
        made == [Disk EXCEPT !.addons[ha_addons_dir].dir = TRUE]
        moved == [made EXCEPT !.addons[ha_addons_dir].target = {},
                              !.addons[ha_addons_dir].backups = mv.backups,
                              !.moved_in = moved_in \cup mv.moved]
        put(e) == [moved EXCEPT
                     !.addons[ha_addons_dir].target = e,
                     !.addons[ha_addons_dir].made = d.made \cup {runs}]
        head == <<Said("info", "setting_up_local_dev"), Left(made)>>
                  \o (IF exists THEN <<Said("warning", "backing_up")>>
                      ELSE <<>>)
    IN  IF ~mv.ok
        THEN {Route(head \o <<Exits>>, "filesystem")}
        ELSE LET ready == head \o (IF exists THEN <<Left(moved)>> ELSE <<>>)
             IN  {Route(ready \o <<Left(put({Entry("link", {})})),
                                  Said("info", "created_symlink")>>, "none"),
                  Route(ready \o <<Said("warning", "cannot_symlink"),
                                  Left(put({Entry("copy",
                                     copytree(os_type, TreeWith(mv.moved)))})),
                                  Said("info", "copied_files")>>, "none")}

BuildStatements ==
    LET arch == ArchOf(LowerMachine(machine))
        head == <<Said("info", "building_image"),
                  [Quiet EXCEPT
                      !.p = <<Probe("docker", command_exists("docker"))>>]>>
        named == head \o <<Said("info", "building_named_image")>>
    IN  IF ~DockerAvailable
        THEN {Route(head \o <<Said("error", "docker_not_available"), Exits>>,
                   "sysexit")}
        ELSE {Route(named \o <<Called(BuildCommand(arch), "ok"),
                              Said("info", "build_completed")>>, "none"),
              Route(named \o <<Called(BuildCommand(arch), "fail")>>
                     \o SaidAll(CommandMsgs("fail"))
                     \o <<Said("error", "docker_build_failed"), Exits>>,
                   "sysexit")}

GitStatements ==
    LET begun == [Disk EXCEPT !.git.dir = TRUE]
        opened == [begun EXCEPT !.manifests = Truncated(".gitignore")]
        written == [begun EXCEPT !.manifests = Written(".gitignore")]
        committed == [written EXCEPT !.git.commits = git.commits + 1]
        head == <<Said("info", "initializing_git")>>
        failed(argv) == <<Called(argv, "fail")>>
                          \o SaidAll(CommandMsgs("fail")) \o <<Exits>>
        toAdd == head \o <<[Called(GitInit, "ok") EXCEPT !.d = <<begun>>], Left(opened),
                           Left(written)>>
    IN  IF GitDirExists THEN {Route(<<>>, "none")}
        ELSE IF ~command_exists("git")
        THEN {Route(head \o <<Called(GitInit, "oserror"), Exits>>,
                   "filesystem")}
        ELSE {Route(head \o failed(GitInit), "command"),
              Route(toAdd \o failed(GitAdd), "command"),
              Route(toAdd \o <<Called(GitAdd, "ok")>> \o failed(GitCommit),
                   "command"),
              Route(toAdd \o <<Called(GitAdd, "ok"),
                              [Called(GitCommit, "ok") EXCEPT
                                  !.d = <<committed>>],
                              Said("info", "git_initialized")>>, "none")}

\* The routes through the step the run is at.
Statements(name) ==
    CASE name = "install_dependencies" ->
           (CASE os_type = "linux" -> LinuxStatements(MissingTools)
              [] os_type = "darwin" -> MacosStatements(MissingTools)
              [] os_type = "windows" -> WindowsStatements(MissingTools)
              [] OTHER ->
                   {Route(DependenciesStatements
                            \o <<Said("error", "unsupported_os"), Exits>>,
                          "sysexit")})
      [] name = "find_ha_config" -> FindStatements
      [] name = "setup_devcontainer" ->
           WriteStatements("devcontainer.json", "setting_up_devcontainer",
                           "devcontainer_created")
      [] name = "setup_local_dev" -> LocalDevStatements
      [] name = "build_addon" -> BuildStatements
      [] name = "setup_production" ->
           WriteStatements("build.yaml", "setting_up_production",
                           "production_files_created")
      [] name = "create_documentation" ->
           WriteStatements("DEVELOPMENT.md", "creating_documentation",
                           "documentation_created")
      [] name = "initialize_git" -> GitStatements
      [] OTHER -> {}

\* What the calls of ev have done is there when the interrupt arrives.
Reached(ev) ==
    LET disk == DiskOf(ev)
    IN  /\ cmds' = cmds \o Added(ev, "c")
        /\ probes' = probes \o Added(ev, "p")
        /\ inputs' = inputs \o Added(ev, "i")
        /\ path' = disk.path
        /\ addons' = disk.addons
        /\ moved_in' = disk.moved_in
        /\ manifests' = disk.manifests
        /\ git' = disk.git
        /\ ha_config_dir' = disk.cfg
        /\ ha_addons_dir' = disk.adir

\* The interrupt arrives inside the try block of main and the clause for
\* KeyboardInterrupt ends the run: in the step at one of its statements, or
\* after the step has returned, at one of the lines that its pipeline or
\* main prints behind it or, behind the last of them, before the try block
\* is left.  Or it arrives while an except clause of main is at work on
\* what a step has raised, where no clause catches it: before the clause
\* has printed its line, or between that line and sys.exit(1).
Interrupt ==
    /\ Running
    /\ \E t \in Statements(pc) :
          \/ \E k \in 0..Len(t.ev) :
                /\ k = 0 \/ k < Len(t.ev)
                /\ Reached(SubSeq(t.ev, 1, k))
                /\ Raise(pc, "interrupt", Added(SubSeq(t.ev, 1, k), "m"))
          \/ LET behind == PipelineIntro(pc) \o PipelineOutro(pc)
                 last == IF NextPc(pc) = "done" THEN Len(behind) + 1
                         ELSE Len(behind)
             IN  /\ t.raises = "none"
                 /\ \E k \in 1..last :
                       /\ Reached(t.ev)
                       /\ steps' = Append(steps, [name |-> pc, ok |-> TRUE])
                       /\ msgs' = msgs \o Added(t.ev, "m")
                                    \o SubSeq(behind, 1, k - 1)
                                    \o HandlerMsgs("interrupt")
                       /\ pc' = "failed"
                       /\ exit_code' = 1
                       /\ err' = "interrupt"
          \/ LET line == HandlerMsgs(t.raises)
             IN  /\ t.raises \notin {"none", "interrupt"}
                 /\ \E k \in 0..Len(line) :
                       /\ Reached(t.ev)
                       /\ steps' = Append(steps, [name |-> pc, ok |-> FALSE])
                       /\ msgs' = msgs \o Added(t.ev, "m")
                                    \o SubSeq(line, 1, k)
                       /\ pc' = "failed"
                       /\ exit_code' = UncaughtExit
                       /\ err' = "uncaught"
    /\ UNCHANGED <<flags, args, colors, isatty, os_type, machine, host,
                   project, manifest_arch, prev_exit, now, runs>>

(***************************************************************************)
(* One run of the script, on a family of hosts.                            *)
(***************************************************************************)
\* Search paths: everything installed; nothing; docker missing; git missing
\* with zypper as the only package manager.
RunPaths == {Executables, {}, {"git", "sudo", "apt-get", "brew"},
             {"docker", "sudo", "zypper", "brew"}}

\* Config roots: a built-in candidate; the override before a built-in
\* candidate; none but the path typed at the prompt; none at all.
RunHosts ==
    {[env |-> NoEnv, marked |-> {Home(<<".homeassistant">>)}, answer |-> ""],
     [env |-> "/srv/ha",
      marked |-> {Home(<<".homeassistant">>), <<"/", "srv", "ha">>},
      answer |-> ""],
     [env |-> NoEnv, marked |-> {<<"/", "srv", "ha">>}, answer |-> "/srv/ha"],
     [env |-> NoEnv, marked |-> {}, answer |-> ""]}

AddonsDirs == {AddonsOf(r) : r \in UNION {h.marked : h \in RunHosts}}

\* A host the script has not run on, and one it has: stale generated files,
\* a repository, and in each addons directory a copied target whose backup
\* of the current second already holds an entry moved into it.
FreshDisk ==
    [manifests |-> [f \in Manifests |-> "absent"],
     git |-> [dir |-> FALSE, commits |-> 0],
     addons |-> [k \in AddonsDirs |-> NoDir]]

UsedDisk ==
    [manifests |-> [f \in Manifests |-> "stale"],
     git |-> [dir |-> TRUE, commits |-> 1],
     addons |-> [k \in AddonsDirs |->
        [dir |-> TRUE,
         target |-> {[kind |-> "copy", id |-> 0, files |-> {<<N_config_yaml>>},
                      inside |-> {}]},
         backups |-> (0 :> [kind |-> "copy", id |-> -2,
                            files |-> {<<N_config_yaml>>}, inside |-> {-1}]),
         made |-> {-2, -1, 0}]]]

\* The state before main is entered.
NotStarted ==
    /\ pc = "idle"
    /\ exit_code = NoExit
    /\ err = "none"
    /\ steps = <<>>
    /\ cmds = <<>>
    /\ msgs = <<>>
    /\ probes = <<>>
    /\ inputs = <<>>
    /\ flags = [dev |-> FALSE, production |-> FALSE]
    /\ args = [dev |-> TRUE, production |-> FALSE]
    /\ colors = TRUE
    /\ isatty = TRUE
    /\ prev_exit = NoExit
    /\ ha_config_dir = None
    /\ ha_addons_dir = None
    /\ moved_in = {}
    /\ now = 0
    /\ runs = 0

Init ==
    /\ NotStarted
    /\ os_type \in OSFamilies
    /\ path \in RunPaths
    /\ machine \in {"x86_64", "aarch64"}
    /\ host \in RunHosts
    /\ project = RunProject
    /\ manifest_arch = valid_archs
    /\ \E disk \in {FreshDisk, UsedDisk} :
          /\ manifests = disk.manifests
          /\ git = disk.git
          /\ addons = disk.addons

Step ==
    \/ install_dependencies
    \/ find_ha_config
    \/ setup_devcontainer
    \/ setup_local_dev
    \/ build_addon
    \/ setup_production
    \/ create_documentation
    \/ initialize_git
    \/ Interrupt

Next == StartRun \/ Step

Spec == Init /\ [][Next]_vars

(***************************************************************************)
(* One run of the script with a caller in the same process that switches   *)
(* the colors off and on between two steps, as the tests may.              *)
(***************************************************************************)
InitColors ==
    /\ Init
    /\ os_type \in {"linux", "windows"}
    /\ path = Executables
    /\ machine = "x86_64"
    /\ host.marked = {Home(<<".homeassistant">>)}
    /\ manifests = FreshDisk.manifests

NextColors == Next \/ Colors_disable \/ Colors_enable

SpecColors == InitColors /\ [][NextColors]_vars

(***************************************************************************)
(* Repeated runs on one host, the clock advancing between them or not.     *)
(***************************************************************************)
InitRerun ==
    /\ NotStarted
    /\ os_type \in {"linux", "windows"}
    /\ path = Executables
    /\ machine = "x86_64"
    /\ host \in {h \in RunHosts : h.env = NoEnv /\ h.marked # {} /\ h.answer = ""}
    /\ project = RunProject
    /\ manifest_arch = valid_archs
    /\ \E disk \in {FreshDisk, UsedDisk} :
          /\ manifests = disk.manifests
          /\ git = disk.git
    /\ addons = FreshDisk.addons

\* The first of the runs: in one of the two modes, on a terminal.
StartFirst ==
    /\ pc = "idle"
    /\ \E p \in BOOLEAN : Begin(~p, p, TRUE)

NextRerun == StartFirst \/ Rerun \/ Tick \/ Step

SpecRerun == InitRerun /\ [][NextRerun]_vars

(***************************************************************************)
(* The dependency step on every search path of every OS family.            *)
(***************************************************************************)
InitDeps ==
    /\ NotStarted
    /\ os_type \in OSFamilies
    /\ path \in SUBSET Executables
    /\ machine = "x86_64"
    /\ host = NoHost
    /\ project = RunProject
    /\ manifest_arch = valid_archs
    /\ manifests = FreshDisk.manifests
    /\ git = FreshDisk.git
    /\ addons = FreshDisk.addons

NextDeps == StartRun \/ install_dependencies

SpecDeps == InitDeps /\ [][NextDeps]_vars

(***************************************************************************)
(* A development run whose dependency step found nothing missing, at the   *)
(* point where its pipeline starts.                                        *)
(***************************************************************************)
DepsDone ==
    /\ exit_code = NoExit
    /\ err = "none"
    /\ cmds = <<>>
    /\ inputs = <<>>
    /\ flags = [dev |-> FALSE, production |-> FALSE]
    /\ args = [dev |-> TRUE, production |-> FALSE]
    /\ colors = TRUE
    /\ isatty = TRUE
    /\ prev_exit = NoExit
    /\ path = Executables
    /\ probes = ToolProbes \o
                  (IF os_type = "darwin"
                   THEN <<Probe("brew", TRUE), Probe("docker", TRUE)>>
                   ELSE <<>>)
    /\ moved_in = {}
    /\ now = 0
    /\ runs = 1

DepsMsgs ==
    print_header(colors) \o <<Msg("info", "installing_dependencies")>>
      \o (IF os_type = "linux" THEN <<Msg("info", "all_tools_installed")>>
          ELSE <<>>)
      \o <<Msg("info", "setting_up_development")>>

(***************************************************************************)
(* find_ha_config on every host: override, marker files, typed answer.     *)
(***************************************************************************)
InitLocate ==
    /\ os_type \in {"linux", "darwin", "windows"}
    /\ DepsDone
    /\ pc = "find_ha_config"
    /\ steps = <<[name |-> "install_dependencies", ok |-> TRUE]>>
    /\ msgs = DepsMsgs
    /\ ha_config_dir = None
    /\ ha_addons_dir = None
    /\ machine = "x86_64"
    /\ host \in Hosts
    /\ project = RunProject
    /\ manifest_arch = valid_archs
    /\ manifests = FreshDisk.manifests
    /\ git = FreshDisk.git
    /\ addons = FreshDisk.addons

NextLocate == find_ha_config

SpecLocate == InitLocate /\ [][NextLocate]_vars

(***************************************************************************)
(* setup_local_dev on every project tree, the config root found among the  *)
(* built-in candidates and the devcontainer written.                       *)
(***************************************************************************)
InitCopy ==
    /\ os_type \in {"linux", "darwin", "windows"}
    /\ DepsDone
    /\ pc = "setup_local_dev"
    /\ steps = <<[name |-> "install_dependencies", ok |-> TRUE],
                 [name |-> "find_ha_config", ok |-> TRUE],
                 [name |-> "setup_devcontainer", ok |-> TRUE]>>
    /\ msgs = DepsMsgs \o <<Msg("info", "looking_for_config"),
                            Msg("info", "found_config"),
                            Msg("info", "setting_up_devcontainer"),
                            Msg("info", "devcontainer_created")>>
    /\ host = [env |-> NoEnv, marked |-> {Home(<<".homeassistant">>)},
               answer |-> ""]
    /\ ha_config_dir = Home(<<".homeassistant">>)
    /\ ha_addons_dir = AddonsOf(Home(<<".homeassistant">>))
    /\ machine = "x86_64"
    /\ project \in SUBSET FileUniverse
    /\ manifest_arch = valid_archs
    /\ \E disk \in {FreshDisk, UsedDisk} :
          /\ manifests = [disk.manifests EXCEPT !["devcontainer.json"] = "fresh"]
          /\ git = disk.git
    /\ addons = FreshDisk.addons

NextCopy == setup_local_dev

SpecCopy == InitCopy /\ [][NextCopy]_vars

(***************************************************************************)
(* Properties of main: order of the steps, choice of the pipeline, exit    *)
(* status.  Checked under Spec.                                            *)
(***************************************************************************)
StepNames == [i \in 1..Len(steps) |-> steps[i].name]

PipelineStepNames == SeqToSet(DevSteps) \cup SeqToSet(ProdSteps)

DepsOk == [name |-> "install_dependencies", ok |-> TRUE]

\* C1: the dependency step is the first step of every run, and a step of
\* either pipeline is executed, or about to be, only when the dependency step
\* of the same run has returned without raising.
C1_DepsFirst ==
    /\ steps # <<>> => steps[1].name = "install_dependencies"
    /\ \A i \in 1..Len(steps) :
          steps[i].name \in PipelineStepNames => i > 1 /\ steps[1] = DepsOk
    /\ pc \in PipelineStepNames => steps # <<>> /\ steps[1] = DepsOk

\* A development run has executed its whole pipeline behind the dependency
\* step.
C1_Witness ==
    /\ pc = "done"
    /\ StepNames = <<"install_dependencies">> \o DevSteps
    /\ steps[1] = DepsOk

DevOnly == {"find_ha_config", "setup_devcontainer", "setup_local_dev",
            "build_addon"}
ProdOnly == {"setup_production"}

DevRan == \E i \in 1..Len(steps) : steps[i].name \in DevOnly
ProdRan == \E i \in 1..Len(steps) : steps[i].name \in ProdOnly

\* C2: once the dependency step has succeeded, steps of exactly one pipeline
\* are executed: the development one when --dev is given or no flag is, the
\* production one when only --production is; never steps of both.
C2_OnePipeline ==
    /\ ~(DevRan /\ ProdRan)
    /\ Len(steps) >= 2 => (DevRan \/ ProdRan)
    /\ DevRan => flags.dev \/ ~flags.production
    /\ ProdRan => ~flags.dev /\ flags.production
    /\ pc = "done" =>
          StepNames = <<"install_dependencies">> \o
                (IF flags.dev \/ ~flags.production THEN DevSteps ELSE ProdSteps)
    /\ \A i \in 1..Len(steps) : \A j \in 1..Len(steps) :
          steps[i].name = steps[j].name => i = j

\* Both flags were given and the run has completed the development pipeline.
C2_Witness ==
    /\ flags.dev /\ flags.production
    /\ pc = "done"
    /\ DevRan

\* The run has ended Failed: main has called sys.exit(1), or a
\* KeyboardInterrupt outside the try block of main (before it, or while an
\* except clause was at work) has ended the process before main could.
EndedFailed ==
    /\ pc = "failed"
    /\ exit_code = 1 \/ (err = "uncaught" /\ exit_code = UncaughtExit)

\* C3: a step that raises is the last step of its run, and the run is then
\* Failed with exit status 1, as is a run interrupted between two steps;
\* exit status 0 is produced only by a run in which the dependency step and
\* every step of the selected pipeline returned.  The one run that is Failed
\* without exit status 1 is the run a KeyboardInterrupt ended outside main's
\* try block, where nothing catches it.
C3_FailStop ==
    /\ \A i \in 1..Len(steps) :
          ~steps[i].ok => i = Len(steps) /\ EndedFailed
    /\ pc = "failed" <=> exit_code \in {1, UncaughtExit}
    /\ exit_code = UncaughtExit <=> err = "uncaught"
    /\ pc = "failed" =>
          \/ steps # <<>> /\ ~steps[Len(steps)].ok
          \/ err = "interrupt"
          \/ err = "uncaught" /\ steps = <<>>
    /\ exit_code = 0 <=> pc = "done"
    /\ exit_code = 0 =>
          /\ StepNames = <<"install_dependencies">> \o Pipeline(args)
          /\ \A i \in 1..Len(steps) : steps[i].ok
    /\ exit_code \in {NoExit, UncaughtExit, 0, 1}

\* The local-dev step has raised a filesystem error in the middle of the
\* development pipeline, and nothing ran after it.
C3_Witness ==
    /\ pc = "failed"
    /\ exit_code = 1
    /\ err = "filesystem"
    /\ StepNames = <<"install_dependencies", "find_ha_config",
                     "setup_devcontainer", "setup_local_dev">>

(***************************************************************************)
(* Properties of repeated development runs.  Checked under SpecRerun.      *)
(***************************************************************************)
LocalDevFailed ==
    /\ pc = "failed"
    /\ err = "filesystem"
    /\ steps[Len(steps)].name = "setup_local_dev"

\* C4: a later development run never fails in setup_local_dev because of the
\* target an earlier run left, and an addons directory in which k runs have
\* created a target holds k - 1 backup entries, also when runs share a clock
\* second.
C4_BackupPerRun ==
    /\ ~LocalDevFailed
    /\ \A a \in DOMAIN addons :
          addons[a].made # {} =>
             Cardinality(DOMAIN addons[a].backups)
                = Cardinality(addons[a].made) - 1

\* C5: an addons directory holds at most one target, and every entry that
\* setup_local_dev ever created there is still the target or a backup entry
\* of its own: none was overwritten, none lies inside another backup or
\* inside the project directory.
C5_NothingOverwritten ==
    /\ moved_in = {}
    /\ \A a \in DOMAIN addons :
          LET d == addons[a]
          IN  /\ Cardinality(d.target) <= 1
              /\ \A k \in DOMAIN d.backups : d.backups[k].inside = {}
              /\ \A id \in d.made :
                    \/ \E e \in d.target : e.id = id
                    \/ \E k \in DOMAIN d.backups : d.backups[k].id = id

(***************************************************************************)
(* Properties of the fallback copy.  Checked under SpecCopy.               *)
(***************************************************************************)
\* The name ends with the suffix, compared as the OS compares names: without
\* regard to case on Windows.
EndsWith(os, name, suffix) ==
    /\ Len(name) >= Len(suffix)
    /\ \A i \in 1..Len(suffix) :
          LET c == name[Len(name) - Len(suffix) + i]
          IN  (IF os = "windows" THEN LowerChar(c) ELSE c) = suffix[i]

\* The two names are the same name for the OS.
SameName(os, name, other) ==
    /\ Len(name) = Len(other)
    /\ \A i \in 1..Len(name) :
          IF os = "windows" THEN LowerChar(name[i]) = LowerChar(other[i])
          ELSE name[i] = other[i]

\* The exclusion set, name by name.
Excluded(os, name) ==
    \/ SameName(os, name, N_git)
    \/ SameName(os, name, N_devcontainer)
    \/ SameName(os, name, N_development_md)
    \/ EndsWith(os, name, <<".", "p", "y">>)
    \/ EndsWith(os, name, <<".", "s", "h">>)
    \/ EndsWith(os, name, <<".", "p", "s", "1">>)

LocalDevDone ==
    /\ Len(steps) = 4
    /\ steps[4] = [name |-> "setup_local_dev", ok |-> TRUE]

\* C6: when the link cannot be created the target is a copy that holds
\* exactly the files of the project tree of which neither the own name nor
\* the name of a directory on the path matches an exclusion pattern (a
\* matching directory is left out with all it holds; names are compared as
\* the OS compares them); when the link is created nothing is copied.
C6_CopyContents ==
    LocalDevDone =>
       LET d == addons[ha_addons_dir]
           copied == \E i \in 1..Len(msgs) : msgs[i].key = "copied_files"
           linked == \E i \in 1..Len(msgs) : msgs[i].key = "created_symlink"
           failed == \E i \in 1..Len(msgs) : msgs[i].key = "cannot_symlink"
       IN  /\ Cardinality(d.target) = 1
           /\ \A e \in d.target :
                 /\ e.kind = "copy" <=> failed
                 /\ e.kind = "link" <=> linked
                 /\ copied <=> failed
                 /\ ~(linked /\ failed)
                 /\ e.kind = "link" => e.files = {}
                 /\ e.kind = "copy" =>
                       e.files = {f \in ProjectTree :
                                    \A i \in 1..Len(f) : ~Excluded(os_type, f[i])}

\* On Windows a copy has been made of a project with a script below rootfs,
\* a directory named like a script, an upper-case script name, .git and the
\* devcontainer; it holds files and leaves some out.
C6_Witness ==
    /\ LocalDevDone
    /\ os_type = "windows"
    /\ {<<N_rootfs, N_hooks_sh>>, <<N_hooks_sh, N_run>>, <<N_setup_upper>>,
        <<N_rootfs, N_run>>, <<N_config_yaml>>} \subseteq project
    /\ git.dir
    /\ \E e \in addons[ha_addons_dir].target :
          /\ e.kind = "copy"
          /\ <<N_rootfs, N_run>> \in e.files
          /\ <<N_rootfs, N_hooks_sh>> \notin e.files
          /\ <<N_setup_upper>> \notin e.files

(***************************************************************************)
(* Properties of find_ha_config.  C7 and C9 are checked under SpecLocate,  *)
(* C8 under Spec.                                                          *)
(***************************************************************************)
LocateDone == Len(steps) >= 2 /\ steps[2].name = "find_ha_config"

\* The override names a directory: it is set and not the empty string.
OverrideSet == host.env # NoEnv /\ host.env # ""

\* The candidate list in the order of the source: the override, when set,
\* and then the built-in paths of the OS.
Ordered ==
    IF OverrideSet THEN <<PathOf(host.env)>> \o BuiltinPaths(os_type)
    ELSE BuiltinPaths(os_type)

SomeCandidateValid == \E i \in 1..Len(Ordered) : Ordered[i] \in host.marked

\* C7: when some candidate holds configuration.yaml, find_ha_config accepts
\* the first such candidate in candidate order; when the override names a
\* directory that holds it, that directory is the one accepted whichever
\* built-in candidates hold it too.
C7_FirstCandidate ==
    LocateDone =>
       /\ SomeCandidateValid =>
             /\ steps[2].ok
             /\ \E i \in 1..Len(Ordered) :
                   /\ ha_config_dir = Ordered[i]
                   /\ Ordered[i] \in host.marked
                   /\ \A j \in 1..(i - 1) : Ordered[j] \notin host.marked
       /\ (OverrideSet /\ PathOf(host.env) \in host.marked) =>
             ha_config_dir = PathOf(host.env)

\* The override and an earlier built-in candidate both hold the marker file
\* and the override has been accepted.
C7_Witness ==
    /\ LocateDone
    /\ OverrideSet
    /\ PathOf(host.env) \in host.marked
    /\ PathOf(host.env) # BuiltinPaths(os_type)[1]
    /\ BuiltinPaths(os_type)[1] \in host.marked
    /\ ha_config_dir = PathOf(host.env)

\* C8 as stated: in every state ha_config_dir and ha_addons_dir are both
\* unset or both set, and when set the directory holds configuration.yaml
\* and ha_addons_dir is its subdirectory addons, whether found among the
\* candidates or typed in.
C8_Original ==
    /\ ha_config_dir = None <=> ha_addons_dir = None
    /\ ha_config_dir # None =>
          /\ ha_config_dir \in host.marked
          /\ ha_addons_dir = ha_config_dir \o <<"addons">>
    /\ (LocateDone /\ steps[2].ok) => ha_config_dir # None

\* The run was interrupted in find_ha_config between the two assignments.
HalfAccepted ==
    /\ pc = "failed"
    /\ err = "interrupt"
    /\ steps[Len(steps)] = [name |-> "find_ha_config", ok |-> FALSE]
    /\ msgs[Len(msgs) - 1].key \in {"looking_for_config", "config_not_found"}

\* C8, amended: a config root that is set holds configuration.yaml, whether
\* found among the candidates or typed in; ha_addons_dir is never set
\* without it and is then its subdirectory addons; once find_ha_config has
\* returned both are set.  ha_config_dir is set and ha_addons_dir is not
\* only in a run that was interrupted between the two assignments, before
\* find_ha_config had printed which directory it uses.
C8_ConfigRoot ==
    /\ ha_config_dir # None => ha_config_dir \in host.marked
    /\ ha_addons_dir # None =>
          /\ ha_config_dir # None
          /\ ha_addons_dir = ha_config_dir \o <<"addons">>
    /\ (ha_config_dir # None /\ ha_addons_dir = None) => HalfAccepted
    /\ (LocateDone /\ steps[2].ok) =>
          ha_config_dir # None /\ ha_addons_dir # None

\* A typed path has been accepted and the run has gone on with it.
C8_Witness ==
    /\ LocateDone
    /\ steps[2].ok
    /\ \E i \in 1..Len(msgs) : msgs[i].key = "using_config"
    /\ ha_config_dir = PathOf(inputs[Len(inputs)])
    /\ ha_addons_dir = ha_config_dir \o <<"addons">>
    /\ pc = "done"

Prompted == \E i \in 1..Len(msgs) : msgs[i].key = "config_not_found"

\* C9: the user is asked for a path exactly when no candidate holds
\* configuration.yaml; a typed path is accepted exactly when it holds that
\* file, and otherwise the run ends with exit status 1 and no config root.
C9_ManualPath ==
    LocateDone =>
       /\ Prompted <=> ~SomeCandidateValid
       /\ inputs # <<>> => Prompted
       /\ inputs # <<>> =>
             IF PathOf(inputs[1]) \in host.marked
             THEN /\ steps[2].ok
                  /\ ha_config_dir = PathOf(inputs[1])
             ELSE /\ ~steps[2].ok
                  /\ pc = "failed"
                  /\ exit_code = 1
                  /\ ha_config_dir = None
                  /\ ha_addons_dir = None

\* A path without the marker file has been typed and the run has ended.
C9_Witness ==
    /\ LocateDone
    /\ inputs # <<>>
    /\ PathOf(inputs[1]) \notin host.marked
    /\ host.marked # {}
    /\ pc = "failed"
    /\ exit_code = 1

(***************************************************************************)
(* Properties of the dependency step.  Checked under SpecDeps.             *)
(***************************************************************************)
DepsRan == Len(steps) >= 1 /\ steps[1].name = "install_dependencies"

\* The dependency step found both required tools on the search path.
NothingMissing ==
    /\ Len(probes) >= Len(RequiredTools)
    /\ \A i \in 1..Len(RequiredTools) :
          probes[i].cmd = RequiredTools[i] /\ probes[i].found

Supported == os_type \in {"linux", "darwin", "windows"}

\* C10 as stated: on Linux, macOS and Windows a dependency step that finds no
\* required tool missing runs no command and returns, whatever package
\* managers are on the search path.
C10_Original ==
    (Supported /\ DepsRan /\ NothingMissing) =>
       /\ cmds = <<>>
       /\ steps[1].ok

\* C10, amended: on Linux, macOS and Windows a dependency step that finds no
\* required tool missing runs no command; on Linux and Windows it returns
\* whatever package managers are on the search path, on macOS it returns
\* when brew is on the search path and ends the run with exit status 1 when
\* it is not.
C10_NoInstallWhenPresent ==
    (Supported /\ DepsRan /\ NothingMissing) =>
       /\ cmds = <<>>
       /\ inputs = <<>>
       /\ steps[1].ok <=> (os_type = "darwin" => "brew" \in path)
       /\ ~steps[1].ok => pc = "failed" /\ exit_code = 1 /\ err = "sysexit"

\* On macOS with brew and both tools, and on Linux with both tools and no
\* package manager at all, the step has returned without running a command.
C10_Witness ==
    /\ DepsRan
    /\ NothingMissing
    /\ steps[1].ok
    /\ cmds = <<>>
    /\ \/ os_type = "darwin" /\ "brew" \in path
       \/ os_type = "linux" /\ path \cap SeqToSet(Managers) = {}

(***************************************************************************)
(* Properties of the Linux branch of the dependency step.  Checked under   *)
(* SpecDeps.                                                               *)
(***************************************************************************)
\* The tools the dependency step did not find, in the order of the list.
MissingSeen ==
    SelectSeq(RequiredTools,
              LAMBDA t : \E i \in 1..Len(RequiredTools) :
                            probes[i].cmd = t /\ ~probes[i].found)

LinuxDepsRan == os_type = "linux" /\ DepsRan /\ Len(probes) >= 2

ManagerOrder == <<"apt-get", "yum", "dnf", "pacman", "zypper">>

ManagersPresent == {i \in 1..Len(ManagerOrder) : ManagerOrder[i] \in path}

\* C11: on Linux detect_package_manager returns the first of apt-get, yum,
\* dnf, pacman, zypper that is on the search path, for every subset of them,
\* and none exactly when none of the five is there; the commands of the
\* dependency step go through the manager returned.
C11_FirstManager ==
    os_type = "linux" =>
       /\ detect_package_manager = "None" <=> ManagersPresent = {}
       /\ \A i \in ManagersPresent :
             (\A j \in ManagersPresent : i <= j) =>
                detect_package_manager = ManagerOrder[i]
       /\ (LinuxDepsRan /\ MissingSeen # <<>> /\ cmds # <<>>
             /\ detect_package_manager # "zypper") =>
                cmds[1].argv[2] = detect_package_manager

\* With dnf, pacman and zypper on the search path and neither apt-get nor
\* yum, the step has run its first command through dnf.
C11_Witness ==
    /\ LinuxDepsRan
    /\ MissingSeen # <<>>
    /\ path \cap SeqToSet(ManagerOrder) = {"dnf", "pacman", "zypper"}
    /\ cmds # <<>>
    /\ cmds[1].argv[2] = "dnf"

\* A command of the step that installs packages through the manager pm.
IsInstallThrough(c, pm) ==
    /\ Len(c.argv) >= 3
    /\ c.argv[1] = "sudo"
    /\ c.argv[2] = pm
    /\ c.argv[3] \in {"install", "-Syu"}

\* C12: on Linux a dependency step that found tools missing and a package
\* manager on the search path, and returned, has run an install command
\* through that manager whose packages include every missing tool,
\* docker-compose and jq, whichever of the five managers it is.
C12_InstallThroughManager ==
    (LinuxDepsRan /\ MissingSeen # <<>> /\ steps[1].ok) =>
       \E i \in 1..Len(cmds) :
          /\ IsInstallThrough(cmds[i], detect_package_manager)
          /\ SeqToSet(MissingSeen) \cup {"docker-compose", "jq"}
                \subseteq SeqToSet(cmds[i].argv)

\* C13: on Linux a dependency step that found tools missing and none of the
\* five managers on the search path ends the run with exit status 1, having
\* run no command, and no step of a pipeline follows.
C13_NoManager ==
    (LinuxDepsRan /\ MissingSeen # <<>> /\ ManagersPresent = {}) =>
       /\ cmds = <<>>
       /\ steps = <<[name |-> "install_dependencies", ok |-> FALSE]>>
       /\ pc = "failed"
       /\ exit_code = 1
       /\ err = "sysexit"
       /\ \E i \in 1..Len(msgs) : msgs[i].key = "no_package_manager"

\* Docker is missing, sudo is there and no manager is: the run has ended.
C13_Witness ==
    /\ LinuxDepsRan
    /\ MissingSeen = <<"docker">>
    /\ ManagersPresent = {}
    /\ "sudo" \in path
    /\ pc = "failed"
    /\ cmds = <<>>


\* A command of the block that configures the Docker service.
IsServiceCommand(c) ==
    /\ Len(c.argv) >= 2
    /\ c.argv[1] = "sudo"
    /\ c.argv[2] \in {"systemctl", "usermod"}

ServiceAttempted == \E i \in 1..Len(cmds) : IsServiceCommand(cmds[i])

\* The install commands of the step have all exited 0 (there may be none).
InstallCompleted ==
    \A i \in 1..Len(cmds) : ~IsServiceCommand(cmds[i]) => cmds[i].out = "ok"

\* C14: on Linux the service and group commands are attempted only when
\* docker was among the missing tools, and always when it was and the
\* install commands before them completed; when one of them fails (the user
\* not interrupting) the step still returns, with a warning, and the
\* pipeline goes on.
C14_ServiceBestEffort ==
    (LinuxDepsRan /\ detect_package_manager # "None") =>
       /\ ServiceAttempted => "docker" \in SeqToSet(MissingSeen)
       /\ ("docker" \in SeqToSet(MissingSeen) /\ InstallCompleted)
             => ServiceAttempted
       /\ (ServiceAttempted
             /\ \A i \in 1..Len(cmds) : cmds[i].out # "interrupt") =>
                /\ steps[1].ok
                /\ pc \notin {"failed", "install_dependencies"}
                /\ (\E i \in 1..Len(cmds) : cmds[i].out # "ok") =>
                      \E j \in 1..Len(msgs) :
                         /\ msgs[j].lvl = "warning"
                         /\ msgs[j].key = "docker_service_manual"


(***************************************************************************)
(* Properties of the macOS and Windows branches and of the unsupported     *)
(* families.  C15 and C17 are checked under SpecDeps, C16 and C18 under    *)
(* Spec.                                                                   *)
(***************************************************************************)
MacDepsRan == os_type = "darwin" /\ DepsRan /\ Len(probes) >= 3

\* C15: on macOS without brew on the search path the dependency step ends
\* the run with exit status 1 and has run no command; with brew and tools
\* missing it has made one invocation, brew install with the missing tools
\* followed by jq, and with brew and nothing missing none.
C15_Homebrew ==
    MacDepsRan =>
       /\ probes[3] = [cmd |-> "brew", found |-> "brew" \in path]
       /\ "brew" \notin path =>
             /\ cmds = <<>>
             /\ steps = <<[name |-> "install_dependencies", ok |-> FALSE]>>
             /\ pc = "failed"
             /\ exit_code = 1
             /\ err = "sysexit"
       /\ ("brew" \in path /\ MissingSeen # <<>>) =>
             /\ Len(cmds) = 1
             /\ cmds[1].argv = <<"brew", "install">> \o MissingSeen \o <<"jq">>
       /\ ("brew" \in path /\ MissingSeen = <<>>) => cmds = <<>>

\* Both tools were missing, brew was there, and the one command is
\* brew install git docker jq.
C15_Witness ==
    /\ MacDepsRan
    /\ "brew" \in path
    /\ cmds = <<[argv |-> <<"brew", "install", "git", "docker", "jq">>,
                 out |-> "ok"]>>
    /\ steps[1].ok

\* The dependency step looked for docker after its install and did not find
\* it.
MacDockerAbsent ==
    /\ Len(probes) >= 4
    /\ probes[4] = [cmd |-> "docker", found |-> FALSE]

\* C16: on macOS a dependency step that does not find docker prints a
\* warning and returns, and the run is never ended because docker is not
\* there.
C16_DockerNeverFatal ==
    MacDepsRan =>
       /\ MacDockerAbsent =>
             /\ steps[1].ok
             /\ \E i \in 1..Len(msgs) :
                   /\ msgs[i].lvl = "warning"
                   /\ msgs[i].key = "docker_desktop_missing"
       /\ ~(/\ pc = "failed"
            /\ \E i \in 1..Len(msgs) : msgs[i].key = "docker_not_available")

WindowsDepsRan == os_type = "windows" /\ DepsRan /\ Len(probes) >= 2

\* C17: on Windows the dependency step runs no command; it asks whether to
\* continue exactly when tools are missing, and on an answer other than y
\* or Y the run ends with exit status 1, no command run and no step of a
\* pipeline entered.
C17_WindowsNoInstall ==
    WindowsDepsRan =>
       /\ cmds = <<>>
       /\ inputs # <<>> => MissingSeen # <<>>
       /\ (inputs # <<>> /\ inputs[1] \notin {"y", "Y"}) =>
             /\ steps = <<[name |-> "install_dependencies", ok |-> FALSE]>>
             /\ pc = "failed"
             /\ exit_code = 1
             /\ err = "sysexit"
       /\ (MissingSeen # <<>> /\ steps[1].ok) =>
             /\ inputs # <<>>
             /\ inputs[1] \in {"y", "Y"}

\* Git was missing, the user answered N, and the run has ended.
C17_Witness ==
    /\ WindowsDepsRan
    /\ MissingSeen = <<"git">>
    /\ inputs = <<"N">>
    /\ pc = "failed"
    /\ exit_code = 1
    /\ cmds = <<>>


\* The files and directories of the host are as one of the two initial disks
\* has them.
DiskUntouched ==
    \E disk \in {FreshDisk, UsedDisk} :
       /\ manifests = disk.manifests
       /\ git = disk.git
       /\ addons = disk.addons

\* C18: on an OS family that is none of linux, darwin, windows the
\* dependency step fails at once: the run ends with exit status 1, no
\* command run, no answer read, no file or directory written, no further step
\* (the user not interrupting, the step ends the run by its own sys.exit
\* after the error line).
C18_UnsupportedOS ==
    (os_type \notin {"linux", "darwin", "windows"} /\ DepsRan) =>
       /\ steps = <<[name |-> "install_dependencies", ok |-> FALSE]>>
       /\ EndedFailed
       /\ cmds = <<>>
       /\ inputs = <<>>
       /\ moved_in = {}
       /\ DiskUntouched
       /\ err \notin {"interrupt", "uncaught"} =>
             /\ err = "sysexit"
             /\ exit_code = 1
             /\ \E i \in 1..Len(msgs) : msgs[i].key = "unsupported_os"

\* On FreeBSD, with every tool on the search path, the step has ended the
\* run.
C18_Witness ==
    /\ os_type = "freebsd"
    /\ path = Executables
    /\ DepsRan
    /\ err = "sysexit"
    /\ pc = "failed"
    /\ exit_code = 1

(***************************************************************************)
(* Properties of build_addon.  C19 is checked under Spec, C20 under        *)
(* SpecBuild.                                                              *)
(***************************************************************************)
IsDockerBuild(c) ==
    /\ Len(c.argv) >= 2
    /\ c.argv[1] = "docker"
    /\ c.argv[2] = "build"

BuildExitedNonZero ==
    \E i \in 1..Len(cmds) : IsDockerBuild(cmds[i]) /\ cmds[i].out = "fail"

\* C19: when docker build exits non-zero the run ends with exit status 1 at
\* build_addon, and neither create_documentation nor initialize_git is
\* executed in that run.
C19_BuildFailureFatal ==
    BuildExitedNonZero =>
       /\ EndedFailed
       /\ steps[Len(steps)] = [name |-> "build_addon", ok |-> FALSE]
       /\ \A i \in 1..Len(steps) :
             steps[i].name \notin {"create_documentation", "initialize_git"}
       /\ err # "interrupt" =>
             \E i \in 1..Len(msgs) : msgs[i].key = "docker_build_failed"
       /\ err \notin {"interrupt", "uncaught"} =>
             err = "sysexit" /\ exit_code = 1

\* The build of a development run has failed after the three steps before
\* it.
C19_Witness ==
    /\ BuildExitedNonZero
    /\ err = "sysexit"
    /\ exit_code = 1
    /\ StepNames = <<"install_dependencies", "find_ha_config",
                     "setup_devcontainer", "setup_local_dev", "build_addon">>
    /\ pc = "failed"

\* Runs on a Linux host with everything installed, on every machine.
InitBuild ==
    /\ NotStarted
    /\ os_type = "linux"
    /\ path = Executables
    /\ machine \in Machines
    /\ host = [env |-> NoEnv, marked |-> {Home(<<".homeassistant">>)},
               answer |-> ""]
    /\ project = RunProject
    /\ manifest_arch = valid_archs
    /\ manifests = FreshDisk.manifests
    /\ git = FreshDisk.git
    /\ addons = FreshDisk.addons

NextBuild == StartRun \/ Step

SpecBuild == InitBuild /\ [][NextBuild]_vars

\* The architecture the claim gives for each machine identifier, the
\* identifier in lower case.
ExpectedArch ==
    CASE machine \in {"x86_64", "AMD64"} -> "amd64"
      [] machine \in {"aarch64", "arm64"} -> "aarch64"
      [] machine = "armv7l" -> "armv7"
      [] OTHER -> "amd64"

\* C20: the build command names one architecture, in the BUILD_ARCH argument
\* and in the image tag alike: amd64 for x86_64 and amd64, aarch64 for
\* aarch64 and arm64, armv7 for armv7l, amd64 for every other machine.
C20_BuildArch ==
    \A i \in 1..Len(cmds) :
       IsDockerBuild(cmds[i]) =>
          cmds[i].argv =
             <<"docker", "build", "--build-arg",
               <<"BUILD_ARCH=", ExpectedArch>>, "-t",
               <<"ghcr.io/home-assistant/", "komodo_periphery", "-",
                 ExpectedArch, ":latest">>, ".">>

\* On a machine that is not in the table the image has been built for
\* amd64.
C20_Witness ==
    /\ machine = "riscv64"
    /\ \E i \in 1..Len(cmds) :
          /\ IsDockerBuild(cmds[i])
          /\ cmds[i].out = "ok"
          /\ cmds[i].argv[4] = <<"BUILD_ARCH=", "amd64">>
    /\ pc = "done"


(***************************************************************************)
(* The production pipeline.  Checked under Spec.                           *)
(***************************************************************************)
ProductionRun == pc # "idle" /\ args.production /\ ~args.dev

\* C21: a production run never locates or asks for a config root, never
\* creates, backs up or copies a workspace target, never writes the
\* devcontainer manifest and never runs docker build: of the disk it changes
\* only build.yaml, DEVELOPMENT.md, .gitignore and .git.
C21_ProductionFrame ==
    ProductionRun =>
       /\ ~DevRan
       /\ ha_config_dir = None /\ ha_addons_dir = None
       /\ ~Prompted
       /\ \A i \in 1..Len(msgs) : msgs[i].key # "looking_for_config"
       /\ moved_in = {}
       /\ \A i \in 1..Len(cmds) : ~IsDockerBuild(cmds[i])
       /\ \E disk \in {FreshDisk, UsedDisk} :
             /\ addons = disk.addons
             /\ manifests["devcontainer.json"] = disk.manifests["devcontainer.json"]

\* A production run has completed and has written build.yaml.
C21_Witness ==
    /\ ProductionRun
    /\ pc = "done"
    /\ StepNames = <<"install_dependencies">> \o ProdSteps
    /\ manifests["build.yaml"] = "fresh"
    /\ manifests["DEVELOPMENT.md"] = "fresh"


(***************************************************************************)
(* Runs on a project whose config.yaml declares any non-empty list of      *)
(* valid architectures.                                                    *)
(***************************************************************************)
InitArch ==
    /\ NotStarted
    /\ os_type = "linux"
    /\ path = Executables
    /\ machine = "x86_64"
    /\ host = [env |-> NoEnv, marked |-> {Home(<<".homeassistant">>)},
               answer |-> ""]
    /\ project = RunProject
    /\ manifest_arch \in SUBSET valid_archs \ {{}}
    /\ \E disk \in {FreshDisk, UsedDisk} :
          /\ manifests = disk.manifests
          /\ git = disk.git
          /\ addons = disk.addons

NextArch == StartRun \/ Step

SpecArch == InitArch /\ [][NextArch]_vars

\* C22: the build.yaml a completed production run leaves has a build_from
\* entry for every architecture of the config.yaml arch list, each a
\* non-empty image reference, whatever non-empty list of valid architectures
\* config.yaml declares.
C22_BuildFromCoversArch ==
    (ProductionRun /\ pc = "done") =>
       test_build_from_configuration(BuildFromOf(manifests["build.yaml"]),
                                     manifest_arch)

\* A production run has completed on a project declaring all five
\* architectures.
C22_Witness ==
    /\ ProductionRun
    /\ pc = "done"
    /\ manifest_arch = valid_archs
    /\ DOMAIN BuildFromOf(manifests["build.yaml"]) = manifest_arch


(***************************************************************************)
(* Interruption.  Checked under Spec.                                      *)
(***************************************************************************)
CommandInterrupted == \E i \in 1..Len(cmds) : cmds[i].out = "interrupt"

FailureReported ==
    \E i \in 1..Len(msgs) :
        msgs[i].key \in {"failed_command_error", "failed_file_system_error",
                         "failed_unexpected_error"}

\* C23: an interrupt that arrives during the dependency step or during a
\* pipeline step, an external command or a best-effort command included,
\* ends the run with the warning that it was cancelled by the user and exit
\* status 1; it is never swallowed and never reported as a command, file
\* system or unexpected error.
C23_InterruptAborts ==
    /\ CommandInterrupted => err = "interrupt"
    /\ err = "interrupt" =>
          /\ pc = "failed"
          /\ exit_code = 1
          /\ msgs[Len(msgs)].lvl = "warning"
          /\ msgs[Len(msgs)].key = "cancelled_by_user"
          /\ ~FailureReported

\* The run was interrupted while a command that starts the Docker service
\* was running.
C23_Witness ==
    /\ err = "interrupt"
    /\ cmds # <<>>
    /\ IsServiceCommand(cmds[Len(cmds)])
    /\ cmds[Len(cmds)].out = "interrupt"
    /\ exit_code = 1

\* The run was interrupted while docker build was running.
C23_WitnessBuild ==
    /\ err = "interrupt"
    /\ cmds # <<>>
    /\ IsDockerBuild(cmds[Len(cmds)])
    /\ cmds[Len(cmds)].out = "interrupt"


\* C24: every write of a generated file (devcontainer.json, build.yaml,
\* DEVELOPMENT.md, .gitignore) is atomic with respect to interruption: the
\* file holds either the complete new content or what it held before the
\* run, never an empty or partial file.
C24_AtomicWrites ==
    \A f \in Manifests : manifests[f] \in {"absent", "stale", "fresh"}


\* C25: no external command is retried: within one run no command line is
\* executed twice, so a command that failed is not invoked again in that run.
C25_NoRetry ==
    \A i, j \in 1..Len(cmds) : cmds[i].argv = cmds[j].argv => i = j

\* A run in which a command succeeded and a later one failed has ended.
C25_Witness ==
    /\ pc = "failed"
    /\ Len(cmds) >= 2
    /\ cmds[1].out = "ok"
    /\ cmds[Len(cmds)].out = "fail"


(***************************************************************************)
(* Version control and the generated files over repeated runs.  Checked    *)
(* under SpecRerun.                                                        *)
(***************************************************************************)
IsGit(c) == c.argv[1] = "git"

\* The last three commands of a list.
LastThree(c) == [i \in 1..3 |-> c[Len(c) - 3 + i]]

\* C26: initialize_git acts only when there is no .git: it then runs git
\* init, writes .gitignore, stages and makes exactly one commit; when .git
\* exists no git command is run and .gitignore is left as it is, so over any
\* sequence of runs .gitignore is written at most once.
C26_GitInitOnce ==
    [][/\ git.dir =>
            /\ git' = git
            /\ manifests'[".gitignore"] = manifests[".gitignore"]
            /\ \A i \in 1..Len(cmds') :
                  IsGit(cmds'[i]) => i <= Len(cmds) /\ cmds[i] = cmds'[i]
       /\ manifests'[".gitignore"] # manifests[".gitignore"] =>
            /\ ~git.dir /\ git'.dir
            /\ Len(cmds') > Len(cmds)
            /\ cmds'[Len(cmds) + 1] = Ran(GitInit, "ok")
       /\ git'.commits # git.commits =>
            /\ ~git.dir /\ git'.dir
            /\ git'.commits = git.commits + 1
            /\ manifests'[".gitignore"] = "fresh"
            /\ Len(cmds') = Len(cmds) + 3
            /\ LastThree(cmds') = <<Ran(GitInit, "ok"), Ran(GitAdd, "ok"),
                                    Ran(GitCommit, "ok")>>
       /\ git'.commits <= 1
      ]_vars

\* A run has initialised the repository and a later run, finding .git, has
\* completed without running a git command.
C26_Witness ==
    /\ runs >= 2
    /\ pc = "done"
    /\ prev_exit = 0
    /\ steps[Len(steps)].name = "initialize_git"
    /\ \A i \in 1..Len(cmds) : ~IsGit(cmds[i])
    /\ git = [dir |-> TRUE, commits |-> 1]
    /\ manifests[".gitignore"] = "fresh"


\* C27: the generated files are overwritten with fixed content: when a
\* development run has completed, devcontainer.json and DEVELOPMENT.md hold
\* that content, and when a production run has completed, build.yaml and
\* DEVELOPMENT.md do, whatever the files held before and however many runs
\* came before.
C27_Overwrites ==
    pc = "done" =>
       /\ manifests["DEVELOPMENT.md"] = "fresh"
       /\ args.dev => manifests["devcontainer.json"] = "fresh"
       /\ ProductionRun => manifests["build.yaml"] = "fresh"

\* A second development run has completed on a project whose generated
\* files all held other content before the first run.
C27_Witness ==
    /\ runs >= 2
    /\ pc = "done"
    /\ prev_exit = 0
    /\ args.dev
    /\ manifests[".gitignore"] = "stale"
    /\ manifests["devcontainer.json"] = "fresh"
    /\ manifests["DEVELOPMENT.md"] = "fresh"


\* A command of this run failed or was interrupted, or the run itself was
\* interrupted.
FaultInRun ==
    \/ err \in {"interrupt", "uncaught"}
    \/ \E i \in 1..Len(cmds) : cmds[i].out # "ok"

\* C28: the installer is reentrant after a failure: whatever files, workspace
\* target, backups and .git a failed run left behind, a following run in the
\* same mode in which no command fails and nothing is interrupted does not
\* fail.
C28_Reentrant ==
    (prev_exit = 1 /\ pc = "failed") => FaultInRun


(***************************************************************************)
(* Colors.  Checked under Spec.                                            *)
(***************************************************************************)
\* C29: on Windows with standard output not a terminal the colors are
\* disabled from the constructor to the end of the run: the banner and every
\* status, warning and error message are printed without an escape code.
\* The colors are still set only in a process that was ended before it had
\* constructed the installer, and so before it had printed anything.
C29_NoColorOffTerminal ==
    (pc # "idle" /\ os_type = "windows" /\ ~isatty) =>
       /\ colors => err = "uncaught" /\ steps = <<>> /\ msgs = <<>>
       /\ \A i \in 1..Len(msgs) : ~msgs[i].ansi

\* A run on Windows off a terminal has ended after printing the banner, a
\* status line, a warning and an error.
C29_Witness ==
    /\ os_type = "windows" /\ ~isatty
    /\ ~colors
    /\ pc = "failed"
    /\ \A l \in {"header", "info", "warning", "error"} :
          \E i \in 1..Len(msgs) : msgs[i].lvl = l /\ ~msgs[i].ansi


(***************************************************************************)
(* Order of the pipeline steps.  Checked under Spec.                       *)
(***************************************************************************)
\* The order the steps are to run in, after the dependency step.
DevOrder == <<"find_ha_config", "setup_devcontainer", "setup_local_dev",
              "build_addon", "create_documentation", "initialize_git">>
ProdOrder == <<"setup_production", "create_documentation", "initialize_git">>

RunOrder ==
    <<"install_dependencies">> \o (IF args.dev THEN DevOrder ELSE ProdOrder)

\* C30: the development pipeline runs locate, devcontainer, link, build,
\* documentation, version control in that order and the production pipeline
\* build manifest, documentation, version control; a step starts only when
\* every step before it has completed without failure.
C30_StepOrder ==
    pc # "idle" =>
       /\ Len(steps) <= Len(RunOrder)
       /\ \A i \in 1..Len(steps) : steps[i].name = RunOrder[i]
       /\ \A i \in 1..(Len(steps) - 1) : steps[i].ok
       /\ Running =>
             /\ \A i \in 1..Len(steps) : steps[i].ok
             /\ pc = RunOrder[Len(steps) + 1]

\* A development run has executed all six steps of its pipeline.
C30_Witness ==
    /\ pc = "done"
    /\ args.dev
    /\ StepNames = <<"install_dependencies">> \o DevOrder


(***************************************************************************)
(* The commands of the Linux dependency step.  Checked under SpecDeps.     *)
(***************************************************************************)
\* A command run through one of the package managers.
IsPackageCommand(c) ==
    /\ Len(c.argv) >= 3
    /\ c.argv[1] = "sudo"
    /\ c.argv[2] \in SeqToSet(Managers)

\* C31: on Linux the package-manager commands are must-succeed and ordered:
\* with apt-get, yum and dnf the update is the first command and the install
\* the second, run only after the update exited 0; a non-zero exit of either
\* ends the run with exit status 1, the failed command being the last command
\* of the run and the dependency step its only step.
C31_PackageCommandsMustSucceed ==
    os_type = "linux" =>
       \A i \in 1..Len(cmds) :
          IsPackageCommand(cmds[i]) =>
             /\ cmds[i].argv[3] = "update" => i = 1
             /\ cmds[i].argv[3] = "install" =>
                   /\ i = 2
                   /\ cmds[1].argv[2] = cmds[i].argv[2]
                   /\ cmds[1].argv[3] = "update"
                   /\ cmds[1].out = "ok"
             /\ cmds[i].out = "fail" =>
                   /\ i = Len(cmds)
                   /\ pc = "failed"
                   /\ exit_code = 1
                   /\ err = "command"
                   /\ steps = <<[name |-> "install_dependencies", ok |-> FALSE]>>

\* The update through yum exited 0, the install exited non-zero, and the run
\* has ended.
C31_Witness ==
    /\ os_type = "linux"
    /\ Len(cmds) = 2
    /\ cmds[1].argv = <<"sudo", "yum", "update", "-y">>
    /\ cmds[1].out = "ok"
    /\ cmds[2].argv[3] = "install"
    /\ cmds[2].out = "fail"
    /\ pc = "failed"
    /\ exit_code = 1


\* An install command through a package manager that exited 0.
IsInstallDone(c) ==
    /\ IsPackageCommand(c)
    /\ c.argv[3] \in {"install", "-Syu"}
    /\ c.out = "ok"

\* C32: on Linux a command that enables or starts the Docker service or adds
\* the user to the docker group is attempted only after an install command
\* of the same run was executed and exited 0, and never in a run without an
\* install command.
C32_ServiceAfterInstall ==
    os_type = "linux" =>
       \A i \in 1..Len(cmds) :
          IsServiceCommand(cmds[i]) =>
             \E j \in 1..(i - 1) : IsInstallDone(cmds[j])


\* The positions in cmds of the commands that configure the Docker service.
ServicePositions == {i \in 1..Len(cmds) : IsServiceCommand(cmds[i])}

ServiceFailed ==
    \E i \in ServicePositions : cmds[i].out \in {"fail", "oserror"}

Warnings == {i \in 1..Len(msgs) : msgs[i].lvl = "warning"}

\* C33: the service commands run in the order enable, start, add the user to
\* the group; the first that fails (the user not interrupting) is the last
\* command of the step, exactly one warning is printed, and the dependency
\* step returns.
C33_ServiceGroup ==
    (os_type = "linux" /\ DepsRan /\ ServicePositions # {}) =>
       /\ \E k \in 1..Len(DockerServiceCommands) :
             \E first \in ServicePositions :
                /\ ServicePositions = first..(first + k - 1)
                /\ \A j \in 1..k :
                      cmds[first + j - 1].argv = DockerServiceCommands[j]
       /\ \A i \in ServicePositions :
             cmds[i].out # "ok" => \A j \in ServicePositions : j <= i
       /\ ServiceFailed =>
             /\ steps[1].ok
             /\ Cardinality(Warnings) = 1
             /\ pc # "failed"


\* C34: when the last run has ended with exit status 0 the repository holds
\* the initial commit, whatever happened in the runs before it: a run whose
\* git add or git commit failed after git init does not keep a later run
\* from making the commit.
C34_CommitAfterDone ==
    (pc = "done" /\ steps[Len(steps)].name = "initialize_git") =>
       git.commits >= 1


(***************************************************************************)
(* The build step without docker.  Checked under Spec.                     *)
(***************************************************************************)
BuildReached == \E i \in 1..Len(steps) : steps[i].name = "build_addon"

\* C35: a development run that reaches build_addon with docker not on the
\* search path runs no docker command: it ends with exit status 1 in
\* build_addon (by the step's own sys.exit unless the user interrupts), the
\* devcontainer manifest written and the workspace target created before.
C35_NoDockerNoBuild ==
    (BuildReached /\ "docker" \notin path) =>
       /\ \A i \in 1..Len(cmds) : cmds[i].argv[1] # "docker"
       /\ EndedFailed
       /\ steps[Len(steps)] = [name |-> "build_addon", ok |-> FALSE]
       /\ err \notin {"interrupt", "uncaught"} =>
             /\ err = "sysexit"
             /\ exit_code = 1
             /\ \E i \in 1..Len(msgs) : msgs[i].key = "docker_not_available"
       /\ manifests["devcontainer.json"] = "fresh"
       /\ addons[ha_addons_dir].target # {}

\* On Windows the user chose to continue without docker, and the run has
\* ended in build_addon.
C35_Witness ==
    /\ os_type = "windows"
    /\ inputs # <<>> /\ inputs[1] \in {"y", "Y"}
    /\ "docker" \notin path
    /\ BuildReached
    /\ pc = "failed"
    /\ err = "sysexit"
    /\ exit_code = 1
    /\ addons[ha_addons_dir].target # {}


(***************************************************************************)
(* What a run that fails early leaves.  Checked under Spec.                *)
(***************************************************************************)
FailedEarly ==
    /\ pc = "failed"
    /\ steps # <<>>
    /\ steps[Len(steps)].name \in {"install_dependencies", "find_ha_config"}

\* C36: a run that fails in the dependency step or in find_ha_config leaves
\* the generated files, .git, the addons directories with their targets and
\* backups, and the project directory as they were before the run.
C36_EarlyFailureFrame ==
    FailedEarly =>
       /\ DiskUntouched
       /\ moved_in = {}

\* The run has ended in find_ha_config on a disk that held generated files
\* and a workspace target before.
C36_Witness ==
    /\ FailedEarly
    /\ steps[Len(steps)].name = "find_ha_config"
    /\ manifests = UsedDisk.manifests
    /\ addons = UsedDisk.addons


(***************************************************************************)
(* The prompt of the Windows dependency check.  Checked under SpecDeps.    *)
(***************************************************************************)
ContinuePrompted ==
    \E i \in 1..Len(msgs) : msgs[i].key = "please_install"

\* C37: on Windows the question whether to continue is asked exactly when a
\* required tool is missing; the dependency step returns only on the answer
\* y or Y, and every other answer, the empty one and "yes" included, ends
\* the run with exit status 1.
C37_WindowsPrompt ==
    WindowsDepsRan =>
       /\ ContinuePrompted <=> MissingSeen # <<>>
       /\ inputs # <<>> => ContinuePrompted /\ Len(inputs) = 1
       /\ inputs # <<>> => (steps[1].ok <=> inputs[1] \in {"y", "Y"})
       /\ (ContinuePrompted /\ steps[1].ok) => inputs # <<>>
       /\ (inputs # <<>> /\ inputs[1] \notin {"y", "Y"}) =>
             /\ pc = "failed"
             /\ exit_code = 1

\* Docker was missing, the user answered "yes", and the run has ended with
\* exit status 1.
C37_Witness ==
    /\ WindowsDepsRan
    /\ MissingSeen = <<"docker">>
    /\ inputs = <<"yes">>
    /\ pc = "failed"
    /\ exit_code = 1

\* Docker was missing, the user answered "Y", and the step has returned.
C37_WitnessContinue ==
    /\ WindowsDepsRan
    /\ MissingSeen = <<"docker">>
    /\ inputs = <<"Y">>
    /\ steps[1].ok


(***************************************************************************)
(* An override that does not name a config root.  Checked under            *)
(* SpecLocate.                                                             *)
(***************************************************************************)
\* HA_CONFIG_PATH is set, to the empty string or to a directory without
\* configuration.yaml.
OverrideUseless ==
    /\ host.env # NoEnv
    /\ host.env = "" \/ PathOf(host.env) \notin host.marked

ValidBuiltins ==
    {i \in 1..Len(BuiltinPaths(os_type)) :
        BuiltinPaths(os_type)[i] \in host.marked}

\* C38: when HA_CONFIG_PATH is the empty string or names a directory without
\* configuration.yaml, find_ha_config goes on through the built-in
\* candidates of the OS in their order and accepts the first that holds the
\* file; it asks for a path only when none does.
C38_UselessOverride ==
    (LocateDone /\ OverrideUseless) =>
       /\ Prompted <=> ValidBuiltins = {}
       /\ ValidBuiltins # {} =>
             /\ steps[2].ok
             /\ \E i \in ValidBuiltins :
                   /\ \A j \in ValidBuiltins : i <= j
                   /\ ha_config_dir = BuiltinPaths(os_type)[i]

\* The override names a directory without the file, the first built-in
\* candidate has none either, and a later built-in candidate was accepted.
C38_Witness ==
    /\ LocateDone
    /\ host.env = "/srv/ha"
    /\ PathOf(host.env) \notin host.marked
    /\ BuiltinPaths(os_type)[1] \notin host.marked
    /\ ha_config_dir = BuiltinPaths(os_type)[2]
    /\ steps[2].ok


(***************************************************************************)
(* Both flags on one command line.  Checked under Spec.                    *)
(***************************************************************************)
BothFlags == pc # "idle" /\ flags.dev /\ flags.production

\* C39: a command line with both --dev and --production is accepted: the run
\* starts with the dependency step (unless it is interrupted before), and
\* the pipeline that follows is the development one; no step of the
\* production pipeline is executed and build.yaml is not written.
C39_BothFlagsRunDev ==
    BothFlags =>
       /\ args = [dev |-> TRUE, production |-> TRUE]
       /\ exit_code \in {NoExit, UncaughtExit, 0, 1}
       /\ pc = "install_dependencies" \/ steps # <<>> \/ err = "uncaught"
       /\ ~ProdRan
       /\ \A i \in 2..Len(steps) : steps[i].name = DevOrder[i - 1]
       /\ manifests["build.yaml"] \in {"absent", "stale"}
       /\ pc = "done" => StepNames = <<"install_dependencies">> \o DevOrder

\* A run given both flags has completed the development pipeline.
C39_Witness ==
    /\ BothFlags
    /\ pc = "done"
    /\ exit_code = 0
    /\ StepNames = <<"install_dependencies">> \o DevOrder
    /\ manifests["devcontainer.json"] = "fresh"

=============================================================================
